---- MODULE Spec2Model ----
(***************************************************************************)
(* A model of asyncoro.py: the AsynCoro scheduler (_schedule, _suspend,    *)
(* _resume, _throw, _terminate_coro, _swap_generator, _monitor), the Coro  *)
(* fields it works on, and the primitives built on it.                     *)
(*                                                                         *)
(* Time is counted in milliseconds (the run loop's slack of 0.001 s is one *)
(* unit).  Python values are integers: None, the return codes 0 and -1,    *)
(* messages 1..MaxMsg (numbered in the order the sends complete), the      *)
(* alarm and update values, and generator objects (100 and above).         *)
(* Exceptions are pairs <<type, argument>>, as the source keeps them.      *)
(***************************************************************************)
EXTENDS Integers, Sequences, FiniteSets, TLC

(* ---- bounds of the model ---- *)
NCoro == 3
MaxMsg == 2
MaxTime == 1
MaxTimeout == 2
MaxExc == 2
MaxCallers == 1
MaxGen == 1
MaxTimers == 2
MaxCalls == 3
MaxSteps == 2
PairCoros == 2
PairCalls == 1
PairSteps == 3
MinReceivers == 2
MaxChanOps == 4
MaxLen == 2
MaxByte == 1
MaxLockOps == 5
MaxSyncOps == 5
MaxNotify == 3
MaxCondOps == 4
PollCoros == 2
DaemonCoros == 2
DaemonSteps == 2
MaxDaemons == 3
NetCoros == 1
MaxSig == 3
MaxReq == 1
NetCalls == 3
PollCalls == 2
TermCoros == 2
TermCalls == 1
IoSteps == 3
MaxIo == 4
SockTimeout == 1
DeepSteps == 4
DeepCalls == 2
SemValue == 1

(* ---- program constants ---- *)
_Scheduled == 1
_Running == 2
_Suspended == 3
_AwaitIO_ == 4
_AwaitMsg_ == 5
Slack == 1

(* ---- Python values ---- *)
None == -9
Unbound == -8
Alarm == 21
Update == 31
Ret == 41
GenBase == 100
PyTrue == 51

Coros == 1..NCoro
Msgs == 1..MaxMsg
Waiting == {_AwaitIO_, _Suspended, _AwaitMsg_}
AlarmValues == {None, Alarm}
Timeouts == {None, 0, -1, MaxTimeout}
IsGen(v) == v >= GenBase
MainGen(c) == GenBase + c
FreshGen(k) == GenBase + NCoro + k + 1
MonBase == 150
MonGen(t) == MonBase + t
IsMonGen(g) == g > MonBase

GeneratorExit == <<"GeneratorExit", 0>>
UserError == <<"Exception", 0>>
(* the exception a body raises itself: sys.exc_info() of a raise statement *)
OwnError == <<"Exception", 1>>
HotSwapException(g) == <<"HotSwapException", g>>
NoInj == <<"none", 0>>

VARIABLES
  \* AsynCoro
  _coros, _cur_coro, _scheduled, _suspended, _timeouts,
  \* Coro
  _state, _value, _exceptions, _callers, _timeout, _msgs, _monitor,
  _new_generator, _hot_swappable, _generator,
  \* locals of AsynCoro._schedule and the position of its thread
  pc, snapshot, cid, retval,
  \* the generator being stepped: what was injected, what it is about to yield
  inj, yv,
  \* where each coroutine's current generator is paused
  at,
  \* environment: the clock, objects created so far
  now, ncreated, nsent, ngen, ncalls, nsteps,
  \* observations
  recvLog, sentLog, lostAtSwap, monitoredExit, alarmOf, lastWake, ignoredSwap,
  \* observation: the arguments of the last suspend, await or receive call,
  \* kept when its timeout is 0
  suspend_call,
  \* observation: the last call another thread made, its target and what it returned
  call,
  \* the scheduler is in, or about to enter, notifier.poll(timeout); the bytes
  \* written to the notifier's command socket and not yet read
  _polling, interrupts,
  \* Coro._daemon, AsynCoro._daemons, the event AsynCoro._complete, and the
  \* thread that called join or terminate
  _daemon, _daemons, _complete, waiter,
  \* AsynCoro._terminate, and the coroutines whose event Coro._complete is set
  _terminate, coro_complete,
  \* one asynchronous socket: the coroutine waiting in each direction, which
  \* operation its task is, whether the notifier has the socket, the events it
  \* watches for it, the socket's _timeout_id, the notifier's _timeouts for it
  _read_coro, _write_coro, read_op, write_op, _fds, _events, _timeout_id, io_timeouts,
  \* observations: what the notifier did last, how many operations and events
  \* there were, the directions whose pending operation was timed out
  io_event, nio, timed_out,
  \* AsynCoro._peers, AsynCoro._requests, AsynCoro._rchannels (cached results),
  \* the signature each peer runs with, the result handed to a pending
  \* request, the remote subscribers and the messages of the registered
  \* channel, what the last network task sent, and what that task was
  _peers, _requests, _rchannels, sigs, async_result, net_subs, net_chan, conn, net_op,
  \* the workload: how many coroutines, calls and steps a run has
  lim,
  \* SyncChannel and its Event; where each coroutine is in its use of the channel
  _recipients, _flag, _waitlist, chan_at, chan_msg, chan_ops,
  \* observations: what each deliver handed out, what each receive returned
  delivered, got,
  \* _AsynCoroSocket: the two ends of a connection and the bytes in flight
  wire, _write_task, _write_result, _read_task, _read_result, view_len, send_at, recv_at, recv_value, recv_n,
  to_send,
  \* observations: payloads sent and returned, bytes written, a read was partial
  sent_msgs, recv_msgs, wireLog, split,
  \* Lock: its fields, each coroutine's place in acquire, and what acquire returned
  _owner, lock_waitlist, lock_at, lock_blocking, lock_ops, lock_ret, waited,
  \* observations: who got True since the last release, who got True and has not
  \* released since
  granted, holders,
  \* observations: the coroutines waiting for the Lock in the order they started to
  \* wait, and those that called acquire after a release that left waiters
  waitSeq, late,
  \* the other primitives: each coroutine's place in the call it is in, the locals of
  \* that call, what its last call returned or raised, the calls made so far
  sync_at, sync_loc, sync_res, sync_ops,
  \* RLock and Condition: their fields; held counts a coroutine's acquires that
  \* returned True less its releases
  rl_owner, _depth, rl_waitlist, _notifylist, held,
  \* Semaphore: its fields; the releases made and the acquires that returned True
  _counter, sem_waitlist, sem_released, sem_acquired,
  \* AsyncChannel: its fields (its event is _flag and _waitlist); the last subscribe
  \* or unsubscribe, of whom, and whether it was a subscriber; for each deliver that returned True, <<min_receivers, number of
  \* subscribers the message was sent to>>
  _subscribers, _min_receivers, aop, adelivered

kvars == <<_coros, _scheduled, _suspended, _timeouts, _state, _value, _exceptions,
           _timeout, _msgs>>
cvars == <<_callers, _monitor, _new_generator, _hot_swappable, _generator>>
svars == <<_cur_coro, pc, snapshot, cid, retval, inj, yv>>
budget == <<ncalls, nsteps>>
evars == <<now, ncreated, nsent, ngen, budget>>
ovars == <<recvLog, lostAtSwap, monitoredExit, alarmOf, lastWake, ignoredSwap, suspend_call>>
tvars == <<alarmOf, lastWake, ignoredSwap, suspend_call, call>>
hvars == <<recvLog, sentLog, lostAtSwap, monitoredExit, tvars>>
chanvars == <<_recipients, _flag, _waitlist, chan_at, chan_msg, chan_ops, delivered, got>>
sockvars == <<wire, _write_task, _write_result, _read_task, _read_result, view_len, send_at, recv_at, recv_value,
              recv_n, to_send, sent_msgs, recv_msgs, wireLog, split>>
lockvars == <<_owner, lock_waitlist, lock_at, lock_blocking, lock_ops, lock_ret, waited,
              granted, holders, waitSeq, late>>
condvars == <<rl_owner, _depth, rl_waitlist, _notifylist, held>>
semvars == <<_counter, sem_waitlist, sem_released, sem_acquired>>
achanvars == <<_subscribers, _min_receivers, aop, adelivered>>
pvars == <<sync_at, sync_loc, sync_res, sync_ops, condvars, semvars, achanvars>>
nvars == <<_polling, interrupts>>
iovars == <<_read_coro, _write_coro, read_op, write_op, _fds, _events, _timeout_id, io_timeouts,
            io_event, nio, timed_out>>
netvars == <<_peers, _requests, _rchannels, sigs, async_result, net_subs, net_chan, conn, net_op>>
yvars == <<lim, iovars, chanvars, sockvars, lockvars, pvars, netvars>>
dvars == <<_daemon, _daemons, _complete, waiter, _terminate, coro_complete>>
xvars == <<yvars, nvars, dvars>>
vars == <<kvars, cvars, svars, evars, hvars, at, xvars>>

Set(f, c, v) == [f EXCEPT ![c] = v]

(* The scheduler state the Coro operations work on, as one value, so that a  *)
(* handler that makes several of these calls composes them.                  *)
Kernel ==
  [coros |-> _coros, scheduled |-> _scheduled, suspended |-> _suspended,
   timeouts |-> _timeouts, state |-> _state, value |-> _value,
   exceptions |-> _exceptions, timeout |-> _timeout, msgs |-> _msgs]

Commit(K) ==
  /\ _coros' = K.coros
  /\ _scheduled' = K.scheduled
  /\ _suspended' = K.suspended
  /\ _timeouts' = K.timeouts
  /\ _state' = K.state
  /\ _value' = K.value
  /\ _exceptions' = K.exceptions
  /\ _timeout' = K.timeout
  /\ _msgs' = K.msgs

(* heapq orders the entries (deadline, cid, alarm_value) as tuples; the heap *)
(* is kept here as the sorted sequence its pops produce.                     *)
TupleLeq(a, b) ==
  \/ a[1] < b[1]
  \/ a[1] = b[1] /\ a[2] < b[2]
  \/ a[1] = b[1] /\ a[2] = b[2] /\ a[3] <= b[3]

heappush(h, e) ==
  LET k == Cardinality({i \in DOMAIN h : TupleLeq(h[i], e)})
  IN SubSeq(h, 1, k) \o <<e>> \o SubSeq(h, k + 1, Len(h))

(* _suspend without the discard from the set of scheduled coroutines. *)
_suspend_keeps_ready(K, c, tmo, alarm_value, st) ==
  IF tmo # None /\ tmo < 0 THEN [K |-> K, ret |-> -1]
  ELSE IF c \notin K.coros \/ K.state[c] # _Running THEN [K |-> K, ret |-> -1]
  ELSE IF st = _AwaitMsg_ /\ K.msgs[c] # <<>> /\ Head(K.msgs[c])[1] = st
    THEN [K |-> [K EXCEPT !.msgs[c] = Tail(@)], ret |-> Head(K.msgs[c])[2]]
  ELSE IF tmo = 0 THEN [K |-> K, ret |-> alarm_value]
  ELSE
    LET K1 == IF tmo = None
              THEN [K EXCEPT !.timeout[c] = None]
              ELSE [K EXCEPT !.timeouts = heappush(@, <<now + tmo, c, alarm_value>>),
                             !.timeout[c] = now + tmo]
    IN [K |-> [K1 EXCEPT !.suspended = @ \cup {c}, !.state[c] = st],
        ret |-> 0]

(* _suspend without the branch for a timeout of 0: the call arms a timer that *)
(* is already due and suspends the coroutine                                 *)
_suspend_zero_waits(K, c, tmo, alarm_value, st) ==
  IF tmo # None /\ tmo < 0 THEN [K |-> K, ret |-> -1]
  ELSE IF c \notin K.coros \/ K.state[c] # _Running THEN [K |-> K, ret |-> -1]
  ELSE IF st = _AwaitMsg_ /\ K.msgs[c] # <<>> /\ Head(K.msgs[c])[1] = st
    THEN [K |-> [K EXCEPT !.msgs[c] = Tail(@)], ret |-> Head(K.msgs[c])[2]]
  ELSE
    LET K1 == IF tmo = None
              THEN [K EXCEPT !.timeout[c] = None]
              ELSE [K EXCEPT !.timeouts = heappush(@, <<now + tmo, c, alarm_value>>),
                             !.timeout[c] = now + tmo]
    IN [K |-> [K1 EXCEPT !.scheduled = @ \ {c},
                         !.suspended = @ \cup {c},
                         !.state[c] = st],
        ret |-> 0]

(* AsynCoro._suspend: the new scheduler state and the value returned. *)
_suspend(K, c, tmo, alarm_value, st) ==
  IF tmo # None /\ tmo < 0 THEN [K |-> K, ret |-> -1]
  ELSE IF c \notin K.coros \/ K.state[c] # _Running THEN [K |-> K, ret |-> -1]
  ELSE IF st = _AwaitMsg_ /\ K.msgs[c] # <<>> /\ Head(K.msgs[c])[1] = st
    THEN [K |-> [K EXCEPT !.msgs[c] = Tail(@)], ret |-> Head(K.msgs[c])[2]]
  ELSE IF tmo = 0 THEN [K |-> K, ret |-> alarm_value]
  ELSE
    LET K1 == IF tmo = None
              THEN [K EXCEPT !.timeout[c] = None]
              ELSE [K EXCEPT !.timeouts = heappush(@, <<now + tmo, c, alarm_value>>),
                             !.timeout[c] = now + tmo]
    IN [K |-> [K1 EXCEPT !.scheduled = @ \ {c},
                         !.suspended = @ \cup {c},
                         !.state[c] = st],
        ret |-> 0]

(* _resume putting a message at the head of the mailbox *)
_resume_prepends(K, c, update, st) ==
  IF c \notin K.coros THEN K
  ELSE IF st = _AwaitMsg_ /\ K.state[c] # st
    THEN [K EXCEPT !.msgs[c] = <<<<st, update>>>> \o @]
  ELSE IF K.state[c] = st
    THEN [K EXCEPT !.timeout[c] = None,
                   !.value[c] = update,
                   !.suspended = @ \ {c},
                   !.scheduled = @ \cup {c},
                   !.state[c] = _Scheduled]
  ELSE K

(* _resume without the comparison of the state: it wakes any waiting        *)
(* coroutine                                                                 *)
_resume_wakes_any(K, c, update, st) ==
  IF c \notin K.coros THEN K
  ELSE IF st = _AwaitMsg_ /\ K.state[c] # st
    THEN [K EXCEPT !.msgs[c] = Append(@, <<st, update>>)]
  ELSE IF K.state[c] \in Waiting
    THEN [K EXCEPT !.timeout[c] = None,
                   !.value[c] = update,
                   !.suspended = @ \ {c},
                   !.scheduled = @ \cup {c},
                   !.state[c] = _Scheduled]
  ELSE K

(* AsynCoro._resume, for Coro.resume (st = _Suspended), Coro._proceed_      *)
(* (st = _AwaitIO_) and Coro.send (st = _AwaitMsg_).                        *)
_resume(K, c, update, st) ==
  IF c \notin K.coros THEN K
  ELSE IF st = _AwaitMsg_ /\ K.state[c] # st
    THEN [K EXCEPT !.msgs[c] = Append(@, <<st, update>>)]
  ELSE IF K.state[c] = st
    THEN [K EXCEPT !.timeout[c] = None,
                   !.value[c] = update,
                   !.suspended = @ \ {c},
                   !.scheduled = @ \cup {c},
                   !.state[c] = _Scheduled]
  ELSE K

(* _throw putting the exception at the head of the queue *)
_throw_prepends(K, c, exc) ==
  IF c \notin K.coros \/ K.state[c] \notin ({_Scheduled} \cup Waiting) THEN K
  ELSE
    LET K1 == [K EXCEPT !.timeout[c] = None, !.exceptions[c] = <<exc>> \o @]
    IN IF K.state[c] \in Waiting
       THEN [K1 EXCEPT !.suspended = @ \ {c},
                       !.scheduled = @ \cup {c},
                       !.state[c] = _Scheduled]
       ELSE K1

(* AsynCoro._throw *)
_throw(K, c, exc) ==
  IF c \notin K.coros \/ K.state[c] \notin ({_Scheduled} \cup Waiting) THEN K
  ELSE
    LET K1 == [K EXCEPT !.timeout[c] = None, !.exceptions[c] = Append(@, exc)]
    IN IF K.state[c] \in Waiting
       THEN [K1 EXCEPT !.suspended = @ \ {c},
                       !.scheduled = @ \cup {c},
                       !.state[c] = _Scheduled]
       ELSE K1

(* AsynCoro._terminate_coro *)
_terminate_coro(K, c) ==
  IF c \notin K.coros THEN K
  ELSE
    LET K1 == IF K.state[c] \in Waiting
              THEN [K EXCEPT !.suspended = @ \ {c}, !.scheduled = @ \cup {c}]
              ELSE K
    IN [K1 EXCEPT !.exceptions[c] = Append(@, GeneratorExit),
                  !.timeout[c] = None,
                  !.state[c] = _Scheduled]

(* The start of a step as it would be if a running coroutine left the set   *)
(* of scheduled coroutines.                                                 *)
SetRunning_leaves_ready(K, c) ==
  [K EXCEPT !.state[c] = _Running, !.scheduled = @ \ {c}]

(* _schedule, under the lock, before a step: the coroutine becomes the      *)
(* running one; it stays in the set of scheduled coroutines.                *)
SetRunning(K, c) == [K EXCEPT !.state[c] = _Running]

(* The timer loop without the test of the deadline against the clock *)
RECURSIVE ExpireTimers_any(_, _)
ExpireTimers_any(K, due) ==
  IF K.timeouts = <<>> THEN K
  ELSE
    LET e == Head(K.timeouts)
        c == e[2]
        K1 == [K EXCEPT !.timeouts = Tail(@)]
    IN IF c \notin K.coros \/ K.timeout[c] # e[1] THEN ExpireTimers_any(K1, due)
       ELSE IF K.state[c] \notin Waiting THEN ExpireTimers_any(K1, due)
       ELSE ExpireTimers_any([K1 EXCEPT !.timeout[c] = None,
                                        !.suspended = @ \ {c},
                                        !.scheduled = @ \cup {c},
                                        !.state[c] = _Scheduled,
                                        !.value[c] = e[3]], due)

(* The loop of _schedule that wakes timed suspends: pops every heap entry   *)
(* whose deadline is at most due = _time() + 0.001.                         *)
RECURSIVE ExpireTimers(_, _)
ExpireTimers(K, due) ==
  IF K.timeouts = <<>> \/ Head(K.timeouts)[1] > due THEN K
  ELSE
    LET e == Head(K.timeouts)
        c == e[2]
        K1 == [K EXCEPT !.timeouts = Tail(@)]
    IN IF c \notin K.coros \/ K.timeout[c] # e[1] THEN ExpireTimers(K1, due)
       ELSE IF K.state[c] \notin Waiting THEN ExpireTimers(K1, due)
       ELSE ExpireTimers([K1 EXCEPT !.timeout[c] = None,
                                    !.suspended = @ \ {c},
                                    !.scheduled = @ \cup {c},
                                    !.state[c] = _Scheduled,
                                    !.value[c] = e[3]], due)

(***************************************************************************)
(* Peers: Location, the signature and secret of a scheduler, the auth code *)
(* 'hashlib.sha1(signature + secret).hexdigest()' and the table _peers.    *)
(***************************************************************************)
(* Location(addr, port); NoLoc stands for a request field that is None *)
NoLoc == <<0, 0>>
Self == <<1, 1>>
Peers == {<<2, 1>>, <<2, 2>>, <<3, 1>>}
Sigs == 1..MaxSig
Secrets == {1, 2}
HashBase == 4
_signature == 1
_secret == 1
(* the signatures the other schedulers draw *)
PeerSigs == Sigs \ {_signature}
LocalChan == 61
NoChan == 62
Found == 71

(* the secret the scheduler at a peer location was started with *)
PeerSecret(l) == IF l[1] = 2 THEN _secret ELSE 2

(* sha1 over the signature, of fixed length, followed by the secret: equal *)
(* digests for equal arguments only                                        *)
Hash(sig, secret) == sig * HashBase + secret

_auth_code == Hash(_signature, _secret)
(* the auth fields of the requests that arrive *)
AuthCodes == {Hash(_signature, k) : k \in Secrets} \cup {None}

(* '(peer.addr, peer.port)' *)
Key(l) == <<l[1], l[2]>>

(* a dict as the set of its items: d[k] = v with every item kept *)
DictSet_add(d, k, v) == d \cup {<<k, v>>}

(* d[k] = v *)
DictSet(d, k, v) == {e \in d : e[1] # k} \cup {<<k, v>>}

(* k in d *)
DictHas(d, k) == \E e \in d : e[1] = k

InitNetwork ==
  /\ _peers = {} /\ _requests = {} /\ _rchannels = {}
  /\ sigs = [l \in Peers |-> 2]
  /\ async_result = None /\ net_subs = {} /\ net_chan = 0
  /\ conn = <<>> /\ net_op = <<"none", TRUE, NoLoc, FALSE, FALSE>>

(* _AsynCoroSocket.__init__ of an asynchronous socket and _AsyncPoller.__init__ *)
InitNotifier ==
  /\ _read_coro = None /\ _write_coro = None /\ read_op = "none" /\ write_op = "none"
  /\ _fds = FALSE /\ _events = {} /\ _timeout_id = None /\ io_timeouts = <<>>
  /\ io_event = <<"none", "r">> /\ nio = 0 /\ timed_out = {}

(* ---------------------------------------------------------------------- *)
(* Construction                                                             *)
(* ---------------------------------------------------------------------- *)

InitCore ==
  /\ _coros = {} /\ _cur_coro = None /\ _scheduled = {} /\ _suspended = {}
  /\ _timeouts = <<>>
  /\ _state = [c \in Coros |-> None]
  /\ _value = [c \in Coros |-> None]
  /\ _exceptions = [c \in Coros |-> <<>>]
  /\ _callers = [c \in Coros |-> <<>>]
  /\ _timeout = [c \in Coros |-> None]
  /\ _msgs = [c \in Coros |-> <<>>]
  /\ _monitor = [c \in Coros |-> None]
  /\ _new_generator = [c \in Coros |-> None]
  /\ _hot_swappable = [c \in Coros |-> FALSE]
  /\ _generator = [c \in Coros |-> None]
  /\ pc = "for" /\ snapshot = {} /\ cid = None /\ retval = Unbound
  /\ inj = NoInj /\ yv = None
  /\ at = [c \in Coros |-> "start"]
  /\ now = 0 /\ ncreated = 0 /\ nsent = 0 /\ ngen = 0 /\ ncalls = 0 /\ nsteps = 0
  /\ recvLog = [c \in Coros |-> <<>>]
  /\ sentLog = [c \in Coros |-> <<>>]
  /\ lostAtSwap = [c \in Coros |-> {}]
  /\ monitoredExit = {}
  /\ alarmOf = [c \in Coros |-> None]
  /\ lastWake = [c \in Coros |-> <<>>]
  /\ ignoredSwap = {}
  /\ suspend_call = <<>>
  /\ call = <<>>
  /\ _polling = FALSE /\ interrupts = 0
  /\ _daemon = [c \in Coros |-> FALSE] /\ _daemons = 0 /\ _complete = FALSE
  /\ waiter = "none"
  /\ _terminate = FALSE /\ coro_complete = {}
  /\ InitNotifier
  /\ InitNetwork

(* One coroutine, with callers from other threads and timers. *)
Solo == [coros |-> 1, calls |-> MaxCalls, steps |-> MaxSteps, timeouts |-> Timeouts,
         ops |-> MaxSyncOps, log |-> FALSE]
(* Several coroutines, which wait without timeouts. *)
Pair == [coros |-> PairCoros, calls |-> PairCalls, steps |-> PairSteps, timeouts |-> {None},
         ops |-> MaxSyncOps, log |-> FALSE]
(* One coroutine that lives for several steps, with few calls from outside. *)
Deep == [Solo EXCEPT !.steps = DeepSteps, !.calls = DeepCalls, !.timeouts = {None}]
(* Coroutines that wait while the scheduler blocks in the notifier. *)
Daemons == [Solo EXCEPT !.coros = DaemonCoros, !.steps = DaemonSteps, !.calls = 0,
                       !.timeouts = {None}]
Net == [Solo EXCEPT !.coros = NetCoros, !.calls = NetCalls, !.timeouts = {None}]
(* One coroutine that works with a socket. *)
Sockets == [Solo EXCEPT !.calls = 0, !.steps = IoSteps, !.timeouts = {None}]
Ending == [Solo EXCEPT !.coros = TermCoros, !.calls = TermCalls, !.timeouts = {None}]
Polled == [Solo EXCEPT !.coros = PollCoros, !.calls = PollCalls, !.timeouts = {None}]
(* One coroutine, with the calls of other threads recorded. *)
Logged == [Solo EXCEPT !.log = TRUE, !.timeouts = {None, MaxTimeout}]

(* SyncChannel.__init__ with min_receivers = MinReceivers, and Event.__init__ *)
(* Event() and 'if not min_receivers: self._event.set()' *)
InitGate(m) == _flag = (m = 0) /\ _waitlist = <<>>

InitChannel ==
  /\ _recipients = <<>>
  /\ InitGate(MinReceivers)
  /\ chan_at = [c \in Coros |-> "idle"]
  /\ chan_msg = [c \in Coros |-> None]
  /\ chan_ops = 0
  /\ delivered = {}
  /\ got = [c \in Coros |-> None]

(* _AsynCoroSocket.__init__ on both ends of a connection *)
InitSocket ==
  /\ wire = <<>> /\ _write_task = FALSE /\ _write_result = <<>>
  /\ _read_task = FALSE /\ _read_result = <<>> /\ view_len = 0
  /\ send_at = "idle" /\ recv_at = "idle" /\ recv_value = <<>> /\ recv_n = 0
  /\ to_send = <<>>
  /\ sent_msgs = <<>> /\ recv_msgs = <<>> /\ wireLog = <<>> /\ split = FALSE

(* Lock.__init__ *)
InitLock ==
  /\ _owner = None /\ lock_waitlist = <<>>
  /\ lock_at = [c \in Coros |-> "idle"]
  /\ lock_blocking = [c \in Coros |-> TRUE]
  /\ lock_ops = 0
  /\ lock_ret = [c \in Coros |-> "none"]
  /\ waited = [c \in Coros |-> FALSE]
  /\ granted = {} /\ holders = {}
  /\ waitSeq = <<>> /\ late = {}

(* RLock.__init__, Condition.__init__ *)
InitCond ==
  /\ rl_owner = None /\ _depth = 0 /\ rl_waitlist = <<>> /\ _notifylist = <<>>
  /\ held = [c \in Coros |-> 0]

(* the locals of a call, with the time of the call and the timeout asked *)
NoLocals == [blocking |-> TRUE, depth |-> 0, timeout |-> None, start |-> 0,
             called |-> 0, asked |-> None, caller |-> "idle"]

(* Semaphore.__init__ *)
InitSem ==
  /\ _counter = SemValue /\ sem_waitlist = <<>>
  /\ sem_released = 0 /\ sem_acquired = 0

(* AsyncChannel.__init__ with min_receivers = m *)
InitAsyncChannel(m) ==
  /\ _subscribers = {} /\ _min_receivers = m
  /\ aop = <<"none", None, FALSE>> /\ adelivered = {}

InitPrims ==
  /\ InitSem
  /\ InitAsyncChannel(MinReceivers)
  /\ sync_at = [c \in Coros |-> "idle"]
  /\ sync_loc = [c \in Coros |-> NoLocals]
  /\ sync_res = [c \in Coros |-> "none"]
  /\ sync_ops = 0
  /\ InitCond

Init == InitCore /\ lim = Solo /\ InitChannel /\ InitSocket /\ InitLock /\ InitPrims
InitDeep == InitCore /\ lim = Deep /\ InitChannel /\ InitSocket /\ InitLock /\ InitPrims
InitDaemon == InitCore /\ lim = Daemons /\ InitChannel /\ InitSocket /\ InitLock /\ InitPrims
InitNet == InitCore /\ lim = Net /\ InitChannel /\ InitSocket /\ InitLock /\ InitPrims
InitIo == InitCore /\ lim = Sockets /\ InitChannel /\ InitSocket /\ InitLock /\ InitPrims
InitTerm == InitCore /\ lim = Ending /\ InitChannel /\ InitSocket /\ InitLock /\ InitPrims
InitPoll == InitCore /\ lim = Polled /\ InitChannel /\ InitSocket /\ InitLock /\ InitPrims
InitCalls == InitCore /\ lim = Logged /\ InitChannel /\ InitSocket /\ InitLock /\ InitPrims
InitPair == InitCore /\ lim = Pair /\ InitChannel /\ InitSocket /\ InitLock /\ InitPrims

Range(s) == {s[i] : i \in DOMAIN s}

(* The scheduler thread died with an uncaught exception while holding       *)
(* AsynCoro._lock: every call that takes the lock blocks from then on.      *)
LockFree == pc # "dead"

(* ---------------------------------------------------------------------- *)
(* Calls any thread may make                                                *)
(* ---------------------------------------------------------------------- *)

(* 'if self._polling and len(self._scheduled) == 1' *)
NeedsInterrupt_never(polling, scheduled) == FALSE

NeedsInterrupt(polling, scheduled) == polling /\ Cardinality(scheduled) = 1

(* self._notifier.interrupt(), at the end of a call that got as far as its  *)
(* test of _polling and leaves the scheduler state K: a byte is written to   *)
(* the command socket                                                        *)
Interrupt(reached, K) ==
  /\ interrupts' = IF reached /\ NeedsInterrupt(_polling, K.scheduled)
                   THEN interrupts + 1 ELSE interrupts
  /\ _polling' = _polling

(* what is recorded of a call: its name, its target and its return value *)
Called(name, c, ret) == call' = IF lim.log THEN <<name, c, ret>> ELSE call

(* Coro.__init__ and AsynCoro._add *)
Add ==
  /\ UNCHANGED yvars
  /\ _complete' = FALSE /\ UNCHANGED <<_daemon, _daemons, waiter, _terminate, coro_complete>>
  /\ LockFree
  /\ ncreated < lim.coros
  /\ LET c == ncreated + 1
     IN /\ Commit([Kernel EXCEPT !.coros = @ \cup {c},
                                 !.state[c] = _Scheduled,
                                 !.scheduled = @ \cup {c}])
        /\ _generator' = Set(_generator, c, MainGen(c))
        /\ ncreated' = c
        /\ Called("add", c, 0)
        /\ Interrupt(TRUE, [scheduled |-> _scheduled \cup {c}])
  /\ UNCHANGED <<_callers, _monitor, _new_generator, _hot_swappable, svars, now, nsent,
                 ngen, budget, sentLog, ovars, at>>

(* Coro.resume *)
Resume ==
  /\ UNCHANGED <<yvars, dvars>>
  /\ LockFree
  /\ ncalls < lim.calls /\ ncalls' = ncalls + 1
  /\ \E c \in _coros :
       /\ Commit(_resume(Kernel, c, Update, _Suspended))
       /\ Called("resume", c, 0)
       /\ Interrupt(_state[c] = _Suspended, _resume(Kernel, c, Update, _Suspended))
  /\ UNCHANGED <<cvars, svars, now, ncreated, nsent, ngen, nsteps, sentLog, ovars, at>>

(* Coro._proceed_: the completion of an I/O wait *)
Proceed ==
  /\ UNCHANGED <<yvars, dvars>>
  /\ LockFree
  /\ ncalls < lim.calls /\ ncalls' = ncalls + 1
  /\ \E c \in _coros :
       /\ Commit(_resume(Kernel, c, Update, _AwaitIO_))
       /\ Called("_proceed_", c, 0)
       /\ Interrupt(_state[c] = _AwaitIO_, _resume(Kernel, c, Update, _AwaitIO_))
  /\ UNCHANGED <<cvars, svars, now, ncreated, nsent, ngen, nsteps, sentLog, ovars, at>>

(* Coro.send *)
Send ==
  /\ UNCHANGED <<yvars, dvars>>
  /\ LockFree
  /\ nsent < MaxMsg
  /\ \E c \in _coros :
       /\ Commit(_resume(Kernel, c, nsent + 1, _AwaitMsg_))
       /\ sentLog' = Set(sentLog, c, Append(sentLog[c], nsent + 1))
       /\ Called("send", c, 0)
       /\ Interrupt(_state[c] = _AwaitMsg_, _resume(Kernel, c, nsent + 1, _AwaitMsg_))
  /\ nsent' = nsent + 1
  /\ ncalls < lim.calls /\ ncalls' = ncalls + 1
  /\ UNCHANGED <<cvars, svars, now, ncreated, ngen, nsteps, ovars, at>>

(* Coro.throw *)
Throw ==
  /\ UNCHANGED <<yvars, dvars>>
  /\ LockFree
  /\ \E c \in _coros :
       /\ Len(_exceptions[c]) < MaxExc
       /\ Commit(_throw(Kernel, c, UserError))
       /\ Called("throw", c, IF _state[c] = _Running THEN -1 ELSE 0)
       /\ Interrupt(_state[c] \in Waiting, _throw(Kernel, c, UserError))
  /\ ncalls < lim.calls /\ ncalls' = ncalls + 1
  /\ UNCHANGED <<cvars, svars, now, ncreated, nsent, ngen, nsteps, sentLog, ovars, at>>

(* Coro.terminate *)
Terminate ==
  /\ UNCHANGED <<yvars, dvars>>
  /\ LockFree
  /\ \E c \in _coros :
       /\ Len(_exceptions[c]) < MaxExc
       /\ Commit(_terminate_coro(Kernel, c))
       /\ Called("terminate", c, 0)
       /\ Interrupt(TRUE, _terminate_coro(Kernel, c))
  /\ ncalls < lim.calls /\ ncalls' = ncalls + 1
  /\ UNCHANGED <<cvars, svars, now, ncreated, nsent, ngen, nsteps, sentLog, ovars, at>>

(* Coro.hot_swap and AsynCoro._swap_generator, with a new generator object *)
HotSwap ==
  /\ UNCHANGED <<yvars, dvars>>
  /\ LockFree
  /\ ngen < MaxGen
  /\ \E c \in _coros :
       LET g == FreshGen(ngen)
       IN IF \/ _callers[c] # <<>>
             \/ _state[c] \notin {_Scheduled, _Suspended}
             \/ ~_hot_swappable[c]
          THEN /\ _new_generator' = Set(_new_generator, c, g)
               /\ Called("hot_swap", c, 1)
               /\ Interrupt(FALSE, Kernel)
               /\ UNCHANGED kvars
          ELSE /\ Len(_exceptions[c]) < MaxExc
               /\ LET K1 == [Kernel EXCEPT !.timeout[c] = None,
                                           !.exceptions[c] = Append(@, HotSwapException(g))]
                  IN Commit(IF _state[c] = _Suspended
                            THEN [K1 EXCEPT !.suspended = @ \ {c},
                                            !.scheduled = @ \cup {c},
                                            !.state[c] = _Scheduled]
                            ELSE K1)
               /\ Called("hot_swap", c, 0)
               /\ Interrupt(_state[c] = _Suspended, [scheduled |-> _scheduled \cup {c}])
               /\ UNCHANGED _new_generator
  /\ ngen' = ngen + 1
  /\ ncalls < lim.calls /\ ncalls' = ncalls + 1
  /\ UNCHANGED <<_callers, _monitor, _hot_swappable, _generator, svars, now, ncreated,
                 nsent, nsteps, sentLog, ovars, at>>

(* the clock *)
Tick ==
  /\ UNCHANGED xvars
  /\ now < MaxTime
  /\ now' = now + 1
  /\ UNCHANGED <<kvars, cvars, svars, ncreated, nsent, ngen, budget, hvars, at>>

(* ---------------------------------------------------------------------- *)
(* AsynCoro._schedule                                                       *)
(* ---------------------------------------------------------------------- *)

(* Top of the run loop, once the previous snapshot is exhausted: the timed  *)
(* suspends that are due (with the slack) are made ready and the ready set  *)
(* is copied.  notifier.poll may return at any time, so the pass is not     *)
(* tied to a deadline.                                                      *)
WakeTimed ==
  /\ LET K1 == ExpireTimers(Kernel, now + Slack)
     IN /\ Commit(K1)
        /\ snapshot' = K1.scheduled
        /\ lastWake' = [c \in Coros |->
             IF _state[c] \in Waiting /\ K1.state[c] = _Scheduled
             THEN <<now, _timeout[c], K1.value[c], alarmOf[c],
                    {e[3] : e \in {x \in Range(_timeouts) : x[1] = _timeout[c] /\ x[2] = c}}>>
             ELSE lastWake[c]]
  /\ UNCHANGED <<cvars, _cur_coro, cid, retval, inj, yv, evars, recvLog, sentLog,
                 lostAtSwap, monitoredExit, alarmOf, ignoredSwap, suspend_call, call, at>>

Schedule_expire ==
  /\ UNCHANGED xvars
  /\ pc = "for" /\ snapshot = {}
  /\ WakeTimed
  /\ UNCHANGED pc

(* for cid in scheduled: the coroutine is skipped unless it is still in the  *)
(* table and Scheduled; otherwise it becomes Running and the current one.    *)
Schedule_for ==
  /\ UNCHANGED xvars
  /\ pc = "for"
  /\ \E c \in snapshot :
       /\ snapshot' = snapshot \ {c}
       /\ IF c \in _coros /\ _state[c] = _Scheduled
          THEN /\ Commit(SetRunning(Kernel, c))
               /\ _cur_coro' = c
               /\ cid' = c
               /\ pc' = "try"
               /\ nsteps < lim.steps /\ nsteps' = nsteps + 1
          ELSE UNCHANGED <<kvars, _cur_coro, cid, pc, nsteps>>
  /\ UNCHANGED <<cvars, retval, inj, yv, now, ncreated, nsent, ngen, ncalls, hvars, at>>

(* try: the head of the exception queue, or else the value, goes into the   *)
(* generator.  A value that enters a generator paused in receive is what    *)
(* that receive returns.                                                    *)
Schedule_try ==
  /\ UNCHANGED xvars
  /\ pc = "try"
  /\ LET c == cid
     IN IF _exceptions[c] # <<>>
        THEN /\ inj' = Head(_exceptions[c])
             /\ _exceptions' = Set(_exceptions, c, Tail(_exceptions[c]))
             /\ UNCHANGED recvLog
        ELSE /\ inj' = <<"send", _value[c]>>
             /\ UNCHANGED _exceptions
             /\ recvLog' = IF at[c] = "recv" /\ _value[c] \in Msgs
                           THEN Set(recvLog, c, Append(recvLog[c], _value[c]))
                           ELSE recvLog
  /\ pc' = "gen"
  /\ UNCHANGED <<_coros, _scheduled, _suspended, _timeouts, _state, _value, _timeout,
                 _msgs, cvars, _cur_coro, snapshot, cid, retval, yv, evars, sentLog,
                 lostAtSwap, monitoredExit, tvars, at>>

(* The generator can run its own code: it is not closed, and an exception   *)
(* thrown into a generator that has not started leaves it at once.          *)
Live(c) == at[c] # "closed" /\ (inj[1] = "send" \/ at[c] # "start")
Normal(c) == Live(c) /\ inj[1] # "GeneratorExit"

(* the frame pushed with the value in the place of the generator *)
PushFrame_swapped(callers, generator, value) == Append(callers, <<value, generator>>)

(* 'coro._callers.append((coro._generator, coro._value))' *)
PushFrame(callers, generator, value) == Append(callers, <<generator, value>>)

(* else: of the try statement, the generator yielded rv (after close(), the *)
(* local retval of an earlier step).  a_cur and a_sub say where the current *)
(* generator, or the one installed by a yield of a generator, is paused.    *)
ElseBranch(c, rv, a_cur, a_sub) ==
  LET running == _state[c] = _Running
      st1 == IF running THEN _Scheduled ELSE _state[c]
      val1 == IF running THEN rv ELSE _value[c]
      swap == /\ _new_generator[c] # None
              /\ _callers[c] = <<>>
              /\ _hot_swappable[c]
              /\ st1 \in {_Scheduled, _Suspended}
      unbound == rv = Unbound /\ (running \/ ~swap)
  IN /\ _cur_coro' = None
     /\ inj' = NoInj /\ yv' = None
     /\ UNCHANGED <<snapshot, cid, _monitor, _hot_swappable, now, ncreated, nsent, budget,
                     hvars>>
     /\ IF unbound
        THEN \* UnboundLocalError: the scheduler thread ends
             /\ Commit([Kernel EXCEPT !.state[c] = st1])
             /\ pc' = "dead"
             /\ UNCHANGED <<_callers, _new_generator, _generator, retval, at>>
        ELSE IF swap
        THEN /\ Commit([Kernel EXCEPT !.state[c] = st1, !.value[c] = val1,
                          !.exceptions[c] = Append(@, HotSwapException(_new_generator[c]))])
             /\ _new_generator' = Set(_new_generator, c, None)
             /\ at' = Set(at, c, a_cur)
             /\ pc' = "for" /\ retval' = rv
             /\ UNCHANGED <<_callers, _generator>>
        ELSE IF IsGen(rv)
        THEN /\ Commit([Kernel EXCEPT !.state[c] = st1, !.value[c] = None])
             /\ _callers' = Set(_callers, c, PushFrame(_callers[c], _generator[c], val1))
             /\ _generator' = Set(_generator, c, rv)
             /\ at' = Set(at, c, a_sub)
             /\ pc' = "for" /\ retval' = rv
             /\ UNCHANGED _new_generator
        ELSE /\ Commit([Kernel EXCEPT !.state[c] = st1, !.value[c] = val1])
             /\ at' = Set(at, c, a_cur)
             /\ pc' = "for" /\ retval' = rv
             /\ UNCHANGED <<_callers, _new_generator, _generator>>

(* 'if len(self._coros) == self._daemons' *)
AllDaemons(ncoros, daemons) == ncoros = daemons

(* the coroutine c has been popped from the table: the count of daemons and *)
(* the event _complete                                                      *)
Deleted(c) ==
  LET daemons == IF _daemon[c] THEN _daemons - 1 ELSE _daemons
  IN /\ _daemons' = daemons
     /\ _complete' = (AllDaemons(Cardinality(_coros \ {c}), daemons) \/ _complete)
     /\ coro_complete' = coro_complete \cup {c}
     /\ UNCHANGED _daemon

(* except: after the exception-specific part, with excs1 and val1 the       *)
(* coroutine's exception queue and value: return to the caller frame, or    *)
(* delete the coroutine and notify its monitor.                             *)
ReturnOrDelete(c, excs1, val1) ==
  /\ _cur_coro' = None
  /\ inj' = NoInj /\ yv' = None
  /\ UNCHANGED <<snapshot, cid, retval, _new_generator, _hot_swappable, evars, recvLog,
                 sentLog, lostAtSwap, tvars>>
  /\ IF _callers[c] # <<>>
     THEN LET caller == _callers[c][Len(_callers[c])]
              st1 == IF excs1 # <<>> \/ _state[c] = _Running THEN _Scheduled
                     ELSE _state[c]
              v1 == IF excs1 # <<>> THEN caller[2] ELSE val1
          IN /\ Commit([Kernel EXCEPT !.state[c] = st1, !.value[c] = v1,
                                      !.exceptions[c] = excs1])
             /\ _callers' = Set(_callers, c, SubSeq(_callers[c], 1, Len(_callers[c]) - 1))
             /\ _generator' = Set(_generator, c, caller[1])
             \* a frame that is the generator that just ended is itself ended
             \* "ret": the caller waits at its yield for the value of the call
             /\ at' = Set(at, c, IF caller[1] = _generator[c] THEN "closed"
                                 ELSE IF excs1 = <<>> THEN "ret" ELSE "other")
             /\ pc' = "for"
             /\ UNCHANGED <<_monitor, monitoredExit, _daemon, _daemons, _complete, coro_complete>>
     ELSE IF _state[c] \notin {_Scheduled, _Running}
     THEN \* the assert of line 3122 fails: the scheduler thread ends
          /\ Commit([Kernel EXCEPT !.coros = @ \ {c}, !.value[c] = val1,
                                   !.exceptions[c] = excs1])
          /\ at' = Set(at, c, "closed")
          /\ pc' = "dead"
          /\ UNCHANGED <<_callers, _generator, _monitor, monitoredExit, _daemon, _daemons,
                         _complete, coro_complete>>
     ELSE IF _monitor[c] # None
     THEN \* monitor._id: Coro has no such slot, AttributeError: the thread ends
          /\ Commit([Kernel EXCEPT !.coros = @ \ {c}, !.scheduled = @ \ {c},
                                   !.state[c] = None, !.value[c] = val1,
                                   !.exceptions[c] = <<>>])
          /\ _generator' = Set(_generator, c, None)
          /\ _monitor' = Set(_monitor, c, None)
          /\ monitoredExit' = monitoredExit \cup {<<_monitor[c], c>>}
          /\ at' = Set(at, c, "closed")
          /\ pc' = "dead"
          /\ Deleted(c)
          /\ UNCHANGED _callers
     ELSE /\ Commit([Kernel EXCEPT !.coros = @ \ {c}, !.scheduled = @ \ {c},
                                   !.state[c] = None, !.value[c] = val1,
                                   !.exceptions[c] = excs1, !.msgs[c] = <<>>])
          /\ _generator' = Set(_generator, c, None)
          /\ at' = Set(at, c, "closed")
          /\ pc' = "for"
          /\ Deleted(c)
          /\ UNCHANGED <<_callers, _monitor, monitoredExit>>

(* the test of the except branch without 'not coro._callers' *)
Swappable_with_callers(flag, callers) == flag

(* 'coro._hot_swappable and not coro._callers' *)
Swappable(flag, callers) == flag /\ callers = <<>>

(* except: exc[0] == HotSwapException *)
HotSwapBranch(c, exc) ==
  /\ _cur_coro' = None
  /\ inj' = NoInj /\ yv' = None
  /\ pc' = "for"
  /\ UNCHANGED <<snapshot, cid, retval, _callers, _monitor, _new_generator,
                 _hot_swappable, evars, recvLog, sentLog, monitoredExit, alarmOf, suspend_call, call,
                 lastWake, _daemon, _daemons, _complete, coro_complete>>
  /\ IF IsGen(exc[2]) /\ Swappable(_hot_swappable[c], _callers[c])
     THEN /\ Commit([Kernel EXCEPT !.exceptions[c] = <<>>, !.value[c] = None,
                                   !.state[c] = _Scheduled])
          /\ _generator' = Set(_generator, c, exc[2])
          /\ at' = Set(at, c, "start")
          /\ lostAtSwap' = Set(lostAtSwap, c,
               (Range(sentLog[c]) \ Range(recvLog[c])) \ {m[2] : m \in Range(_msgs[c])})
          /\ UNCHANGED ignoredSwap
     ELSE \* 'invalid HotSwapException ignored': the state stays _Running
          /\ ignoredSwap' = ignoredSwap \cup {c}
          /\ UNCHANGED <<kvars, _generator, at, lostAtSwap>>

(* ---------------------------------------------------------------------- *)
(* The generator of the current coroutine, between the send/throw/close of  *)
(* _schedule and the yield or exception that ends the step.                 *)
(* ---------------------------------------------------------------------- *)

UserCode(c) == Normal(c) /\ ~IsMonGen(_generator[c])

(* Coro.suspend / Coro.sleep, Coro._await_ and Coro.receive, called as      *)
(* 'yield coro.suspend(...)': the call, then the yield of what it returned. *)
Gen_suspend ==
  /\ UNCHANGED xvars
  /\ pc = "gen" /\ UserCode(cid)
  /\ \E st \in Waiting, tmo \in lim.timeouts, alarm_value \in AlarmValues :
       /\ (tmo # None /\ tmo > 0) => Len(_timeouts) < MaxTimers
       /\ (tmo = None \/ tmo < 0) => alarm_value = None
       /\ LET r == _suspend(Kernel, cid, tmo, alarm_value, st)
              popped == r.K.msgs # _msgs
              waits == r.K.state[cid] = st
          IN /\ Commit(r.K)
             /\ yv' = r.ret
             /\ at' = Set(at, cid, IF waits /\ st = _AwaitMsg_ THEN "recv" ELSE "other")
             /\ recvLog' = IF popped THEN Set(recvLog, cid, Append(recvLog[cid], r.ret))
                           ELSE recvLog
             /\ alarmOf' = IF waits THEN Set(alarmOf, cid, alarm_value) ELSE alarmOf
             /\ suspend_call' = IF tmo = 0 THEN <<st, tmo, alarm_value>> ELSE <<>>
  /\ pc' = "yield"
  /\ UNCHANGED <<cvars, _cur_coro, snapshot, cid, retval, inj, evars, sentLog, lostAtSwap,
                 monitoredExit, lastWake, ignoredSwap, call>>

Gen_yield ==
  /\ UNCHANGED xvars
  /\ pc = "yield"
  /\ ElseBranch(cid, yv, at[cid], "start")
  /\ UNCHANGED ngen

(* yield of a plain value *)
Gen_yield_value ==
  /\ UNCHANGED xvars
  /\ pc = "gen" /\ UserCode(cid)
  /\ ElseBranch(cid, None, "other", "start")
  /\ UNCHANGED ngen

(* yield of a new generator: a call of a sub-generator *)
Gen_yield_generator ==
  /\ UNCHANGED xvars
  /\ pc = "gen" /\ UserCode(cid)
  /\ ngen < MaxGen
  /\ Len(_callers[cid]) < MaxCallers
  /\ ElseBranch(cid, FreshGen(ngen), "other", "start")
  /\ ngen' = ngen + 1

(* yield coro.monitor(t): Coro.monitor is a generator function *)
Gen_yield_monitor ==
  /\ UNCHANGED xvars
  /\ pc = "gen" /\ UserCode(cid)
  /\ Len(_callers[cid]) < MaxCallers
  /\ \E t \in Coros : ElseBranch(cid, MonGen(t), "other", "start")
  /\ UNCHANGED ngen

(* The body of Coro.monitor up to its raise: AsynCoro._monitor(self, t). *)
Gen_monitor ==
  /\ UNCHANGED xvars
  /\ pc = "gen" /\ Normal(cid) /\ IsMonGen(_generator[cid])
  /\ LET c == cid
         t == _generator[cid] - MonBase
     IN IF t \notin _coros \/ c \notin _coros \/ _monitor[t] # None \/ t = c
        THEN yv' = -1 /\ UNCHANGED _monitor
        ELSE yv' = 0 /\ _monitor' = Set(_monitor, t, c)
  /\ pc' = "stop"
  /\ UNCHANGED <<kvars, _callers, _new_generator, _hot_swappable, _generator, _cur_coro,
                 snapshot, cid, retval, inj, evars, hvars, at>>

(* Coro.hot_swappable(flag) *)
Gen_hot_swappable ==
  /\ UNCHANGED xvars
  /\ pc = "gen" /\ UserCode(cid)
  /\ _cur_coro = cid
  /\ \E flag \in BOOLEAN :
       /\ flag # _hot_swappable[cid]
       /\ _hot_swappable' = Set(_hot_swappable, cid, flag)
  /\ UNCHANGED <<kvars, _callers, _monitor, _new_generator, _generator, svars, evars,
                 hvars, at>>

(* generator.close() returned: no value is assigned to retval, the else     *)
(* branch runs with the one of an earlier step.  If that is a generator it  *)
(* is one that has not started or has ended.                                *)
Gen_close ==
  /\ UNCHANGED xvars
  /\ pc = "gen" /\ inj[1] = "GeneratorExit"
  /\ \E a \in {"start", "closed"} :
       /\ retval = _generator[cid] => a = "closed"
       /\ ElseBranch(cid, retval, "closed", a)
  /\ UNCHANGED ngen

(* the generator ends: StopIteration, with or without a value *)
Gen_return ==
  /\ UNCHANGED <<yvars, nvars, waiter, _terminate>>
  /\ \E args \in {<<>>, <<Ret>>, <<yv>>} :
       /\ \/ pc = "gen" /\ UserCode(cid) /\ args \in {<<>>, <<Ret>>}
          \/ pc = "gen" /\ at[cid] = "closed" /\ inj[1] = "send" /\ args = <<>>
          \/ pc = "stop" /\ args = <<yv>>
       /\ ReturnOrDelete(cid, <<>>, IF args # <<>> THEN args[1] ELSE _value[cid])
  /\ UNCHANGED evars

(* an exception leaves the generator: the one thrown in, or its own *)
Gen_raise ==
  /\ UNCHANGED <<yvars, nvars, waiter, _terminate>>
  /\ pc = "gen"
  /\ \E exc \in {inj, OwnError} :
       /\ exc[1] \notin {"send", "GeneratorExit", "none"}
       /\ exc = inj \/ UserCode(cid)
       /\ IF exc[1] = "HotSwapException"
          THEN HotSwapBranch(cid, exc)
          ELSE /\ ReturnOrDelete(cid, Append(_exceptions[cid], exc), _value[cid])
               /\ UNCHANGED evars

(* ---------------------------------------------------------------------- *)
(* The scheduler with its callers and coroutine bodies                      *)
(* ---------------------------------------------------------------------- *)

Next ==
  \/ Add
  \/ Resume
  \/ Proceed
  \/ Send
  \/ Throw
  \/ Terminate
  \/ HotSwap
  \/ Tick
  \/ Schedule_expire
  \/ Schedule_for
  \/ Schedule_try
  \/ Gen_suspend
  \/ Gen_yield
  \/ Gen_yield_value
  \/ Gen_yield_generator
  \/ Gen_yield_monitor
  \/ Gen_monitor
  \/ Gen_hot_swappable
  \/ Gen_close
  \/ Gen_return
  \/ Gen_raise

Spec == Init /\ [][Next]_vars

SpecPair == InitPair /\ [][Next]_vars

SpecCalls == InitCalls /\ [][Next]_vars

SpecDeep == InitDeep /\ [][Next]_vars

(* ---------------------------------------------------------------------- *)
(* The top of the run loop, step by step: the scheduler blocks in the       *)
(* notifier when no coroutine is ready, and the calls of other threads      *)
(* interrupt it.                                                            *)
(* ---------------------------------------------------------------------- *)

schedvars_ == <<kvars, cvars, _cur_coro, snapshot, cid, retval, inj, yv, evars, hvars, at, yvars>>
schedvars == <<schedvars_, dvars>>

(* self._notifier.poll(0), reached from the position p of the loop: the     *)
(* command socket is read                                                   *)
PollEventsAt(p) ==
  /\ pc = p /\ snapshot = {}
  /\ interrupts' = 0
  /\ pc' = "top"
  /\ UNCHANGED <<schedvars, _polling>>

Poll_events == PollEventsAt("for")

(* under the lock: 'if not self._scheduled', the timeout, _polling = True *)
Poll_enter ==
  /\ pc = "top"
  /\ IF _scheduled = {}
     THEN _polling' = TRUE /\ pc' = "poll"
     ELSE _polling' = _polling /\ pc' = "timers"
  /\ UNCHANGED <<schedvars, interrupts>>

(* self._notifier.poll(timeout) returns: the command socket is readable, or *)
(* the timeout, that of the earliest timer, has passed                       *)
Poll_wait ==
  /\ pc = "poll"
  /\ \/ interrupts > 0
     \/ _timeouts # <<>> /\ Head(_timeouts)[1] <= now + Slack
  /\ interrupts' = 0
  /\ pc' = "polled"
  /\ UNCHANGED <<schedvars, _polling>>

(* under the lock again: _polling = False *)
Poll_leave ==
  /\ pc = "polled"
  /\ _polling' = FALSE
  /\ pc' = "timers"
  /\ UNCHANGED <<schedvars, interrupts>>

(* the timer loop and the copy of the ready set *)
Poll_timers ==
  /\ UNCHANGED xvars
  /\ pc = "timers"
  /\ WakeTimed
  /\ pc' = "for"

NextPoll ==
  \/ Add
  \/ Resume
  \/ Proceed
  \/ Send
  \/ Throw
  \/ Terminate
  \/ HotSwap
  \/ Poll_events
  \/ Poll_enter
  \/ Poll_wait
  \/ Poll_leave
  \/ Poll_timers
  \/ Schedule_for
  \/ Schedule_try
  \/ Gen_suspend
  \/ Gen_yield
  \/ Gen_hot_swappable
  \/ Gen_close
  \/ Gen_return
  \/ Gen_raise

SpecPoll == InitPoll /\ [][NextPoll]_vars

(***************************************************************************)
(* Daemon coroutines and the threads that wait for the others.             *)
(***************************************************************************)
dframe == <<kvars, cvars, _cur_coro, snapshot, cid, retval, inj, yv, evars, hvars, at, yvars,
            nvars, pc>>

(* Coro.set_daemon called by the running coroutine, then                    *)
(* AsynCoro._set_daemon: 'coro._daemon = True; self._daemons += 1'          *)
Gen_set_daemon ==
  /\ pc = "gen" /\ UserCode(cid) /\ _cur_coro = cid
  /\ _daemons < MaxDaemons
  /\ _daemon' = Set(_daemon, cid, TRUE)
  /\ _daemons' = _daemons + 1
  /\ UNCHANGED <<dframe, _complete, waiter, _terminate, coro_complete>>

(* AsynCoro.join up to its wait: the coroutines are logged under the lock *)
Join ==
  /\ waiter = "none" /\ LockFree
  /\ waiter' = "join"
  /\ UNCHANGED <<dframe, _daemon, _daemons, _complete, _terminate, coro_complete>>

(* AsynCoro.terminate(await_non_daemons=True) up to its first wait:         *)
(* 'if await_non_daemons and len(self._coros) > self._daemons'              *)
Terminate_await ==
  /\ waiter = "none"
  /\ waiter' = IF Cardinality(_coros) > _daemons THEN "terminate" ELSE "through"
  /\ UNCHANGED <<dframe, _daemon, _daemons, _complete, _terminate, coro_complete>>

(* 'self._complete.wait()' returns in the waiting thread *)
Complete_wait ==
  /\ waiter \in {"join", "terminate"} /\ _complete
  /\ waiter' = "through"
  /\ UNCHANGED <<dframe, _daemon, _daemons, _complete, _terminate, coro_complete>>

NextDaemon ==
  \/ Add \/ Join \/ Terminate_await \/ Complete_wait
  \/ Schedule_expire \/ Schedule_for \/ Schedule_try
  \/ Gen_set_daemon \/ Gen_yield_value \/ Gen_return

SpecDaemon == InitDaemon /\ [][NextDaemon]_vars

(***************************************************************************)
(* The end of the scheduler: AsynCoro.terminate and the code of _schedule  *)
(* after its loop.                                                         *)
(***************************************************************************)

(* AsynCoro.terminate() up to its 'self._complete.wait()': the flag is set  *)
(* and a byte is written to the command socket, whether the scheduler polls *)
(* or not                                                                   *)
Terminate_request ==
  /\ waiter = "none" /\ ~_terminate
  /\ _terminate' = TRUE
  /\ interrupts' = interrupts + 1
  /\ waiter' = "final"
  /\ UNCHANGED <<schedvars_, pc, _polling, _daemon, _daemons, _complete, coro_complete>>

(* 'self._complete.wait()' of terminate returns, then notifier.terminate() *)
Terminate_wait ==
  /\ waiter = "final" /\ _complete
  /\ waiter' = "terminated"
  /\ UNCHANGED <<dframe, _daemon, _daemons, _complete, _terminate, coro_complete>>

(* 'while not self._terminate', once the snapshot is exhausted *)
Schedule_while ==
  /\ pc = "for" /\ snapshot = {}
  /\ pc' = IF _terminate THEN "exit" ELSE "while"
  /\ UNCHANGED <<schedvars, nvars>>

Poll_events_while == PollEventsAt("while")

(* the value of a coroutine whose frames are popped one by one:             *)
(* 'coro._generator, coro._value = coro._callers.pop(-1)'                   *)
ExitValue(callers, value) == IF callers = <<>> THEN value ELSE callers[1][2]

(* the code after the loop, under the lock: every coroutine of the ready   *)
(* and suspended sets has its body and its caller frames closed and its    *)
(* event set; the sets, the timers and the table are emptied; _complete    *)
(* is set                                                                   *)
Schedule_exit ==
  /\ pc = "exit"
  /\ LET S == (_scheduled \cup _suspended) \cap _coros
     IN /\ Commit([Kernel EXCEPT
                     !.state = [c \in Coros |-> IF c \in S THEN _Scheduled ELSE @[c]],
                     !.value = [c \in Coros |-> IF c \in S THEN ExitValue(_callers[c], @[c])
                                                ELSE @[c]],
                     !.scheduled = {}, !.suspended = {}, !.timeouts = <<>>,
                     !.coros = {}])
        /\ _generator' = [c \in Coros |-> IF c \in S THEN None ELSE _generator[c]]
        /\ _callers' = [c \in Coros |-> IF c \in S THEN <<>> ELSE _callers[c]]
        /\ at' = [c \in Coros |-> IF c \in S THEN "closed" ELSE at[c]]
        /\ coro_complete' = coro_complete \cup S
        /\ IF S = {} THEN UNCHANGED _cur_coro ELSE _cur_coro' \in S
  /\ _complete' = TRUE
  /\ pc' = "done"
  /\ UNCHANGED <<_monitor, _new_generator, _hot_swappable, snapshot, cid, retval, inj, yv,
                 evars, hvars, yvars, nvars, _daemon, _daemons, waiter, _terminate>>

(* the steps of the scheduler thread *)
SchedulerThread ==
  \/ Schedule_while \/ Poll_events_while \/ Poll_enter \/ Poll_wait \/ Poll_leave
  \/ Poll_timers \/ Schedule_for \/ Schedule_try
  \/ Gen_suspend \/ Gen_yield \/ Gen_yield_generator \/ Gen_return
  \/ Schedule_exit

NextTerm ==
  \/ Add
  \/ Resume
  \/ Terminate_request
  \/ Terminate_wait
  \/ Schedule_while
  \/ Poll_events_while
  \/ Poll_enter
  \/ Poll_wait
  \/ Poll_leave
  \/ Poll_timers
  \/ Schedule_for
  \/ Schedule_try
  \/ Gen_suspend
  \/ Gen_yield
  \/ Gen_yield_generator
  \/ Gen_return
  \/ Schedule_exit

(* the scheduler thread runs as long as it has something to do *)
SpecTerm == InitTerm /\ [][NextTerm]_vars /\ WF_vars(SchedulerThread)

(***************************************************************************)
(* Asynchronous socket operations: the coroutine's call, the task the      *)
(* notifier runs on an event, hangups and the socket's timeout.            *)
(***************************************************************************)
SockError == <<"socket.error", 0>>
SockTimedOut == <<"socket.timeout", 0>>
RecvBuf == 91
Sent == 92
ReadOps == {"recv", "recvall", "recvfrom"}
WriteOps == {"send", "sendto", "sendall"}

sockrest == <<wire, _write_result, _read_result, view_len, send_at, recv_at, recv_value,
              recv_n, to_send, sent_msgs, recv_msgs, wireLog, split>>
ioframe == <<cvars, svars, evars, hvars, at, lim, nvars, dvars, netvars, chanvars, lockvars,
             pvars, sockrest>>

(* what the notifier holds of the socket *)
Notifier == [fds |-> _fds, events |-> _events, tid |-> _timeout_id, ts |-> io_timeouts]

IoCommit(N) ==
  /\ _fds' = N.fds /\ _events' = N.events /\ _timeout_id' = N.tid /\ io_timeouts' = N.ts

(* bisect_left(self._timeouts, t) as an index from 1 *)
bisect_left(ts, t) == Cardinality({i \in DOMAIN ts : ts[i] < t}) + 1

(* _AsyncPoller._add_timeout with fd._timeout = tmo *)
_add_timeout(N, tmo) ==
  IF tmo # 0
  THEN LET i == bisect_left(N.ts, now + tmo)
       IN [N EXCEPT !.ts = SubSeq(@, 1, i - 1) \o <<now + tmo>> \o SubSeq(@, i, Len(@)),
                    !.tid = now + tmo]
  ELSE [N EXCEPT !.tid = None]

(* _AsyncPoller._del_timeout: the entry at the place of fd._timeout_id *)
_del_timeout(N) ==
  IF N.tid = None THEN N
  ELSE LET i == bisect_left(N.ts, N.tid)
       IN IF i <= Len(N.ts)
          THEN [N EXCEPT !.ts = SubSeq(@, 1, i - 1) \o SubSeq(@, i + 1, Len(@)),
                         !.tid = None]
          ELSE N

(* _AsyncPoller.add *)
add(N, event, tmo) == _add_timeout([N EXCEPT !.fds = TRUE, !.events = @ \cup {event}], tmo)

(* _AsyncPoller.clear *)
clear(N, event) ==
  IF N.events = {} THEN N
  ELSE LET N1 == [N EXCEPT !.events = @ \ {event}]
       IN IF N1.events = {} THEN _del_timeout(N1) ELSE N1

(* _AsyncPoller.unregister *)
unregister(N) ==
  IF ~N.fds THEN N ELSE _del_timeout([N EXCEPT !.fds = FALSE, !.events = {}])

(* coro.throw(exc) for the coroutine of a slot, if there is one *)
ThrowTo(K, c, exc) == IF c = None THEN K ELSE _throw(K, c, exc)

(* the except branch of _sendall: _wirte_coro is no slot of the socket, the *)
(* assignment raises AttributeError, which poll logs: nothing is thrown and *)
(* _write_coro keeps the coroutine                                          *)
SendallError(K, c) == [K |-> K, coro |-> c]

(* the except branch of the other tasks *)
TaskError(K, c) == [K |-> _throw(K, c, SockError), coro |-> None]

(* _async_recv, _async_recvall, _async_recvfrom called by the running       *)
(* coroutine (after settimeout(tmo)), up to its yield                       *)
Io_read_op ==
  /\ pc = "gen" /\ UserCode(cid) /\ _cur_coro = cid
  /\ nio < MaxIo /\ nio' = nio + 1
  /\ \E op \in ReadOps, tmo \in {0, SockTimeout} :
       /\ read_op' = op
       /\ IoCommit(add(Notifier, "r", tmo))
  /\ _read_task' = TRUE
  /\ _read_coro' = cid
  /\ Commit(_suspend(Kernel, cid, None, None, _AwaitIO_).K)
  /\ yv' = None /\ pc' = "yield"
  /\ at' = Set(at, cid, "other")
  /\ io_event' = <<"op", "r">>
  /\ timed_out' = timed_out \ {"r"}
  /\ UNCHANGED <<cvars, _cur_coro, snapshot, cid, retval, inj, evars, hvars, lim, nvars, dvars,
                 netvars, chanvars, lockvars, pvars, sockrest, _write_task, _write_coro,
                 write_op>>

(* _async_send, _async_sendto, _async_sendall *)
Io_write_op ==
  /\ pc = "gen" /\ UserCode(cid) /\ _cur_coro = cid
  /\ nio < MaxIo /\ nio' = nio + 1
  /\ \E op \in WriteOps, tmo \in {0, SockTimeout} :
       /\ write_op' = op
       /\ IoCommit(add(Notifier, "w", tmo))
  /\ _write_task' = TRUE
  /\ _write_coro' = cid
  /\ Commit(_suspend(Kernel, cid, None, None, _AwaitIO_).K)
  /\ yv' = None /\ pc' = "yield"
  /\ at' = Set(at, cid, "other")
  /\ io_event' = <<"op", "w">>
  /\ timed_out' = timed_out \ {"w"}
  /\ UNCHANGED <<cvars, _cur_coro, snapshot, cid, retval, inj, evars, hvars, lim, nvars, dvars,
                 netvars, chanvars, lockvars, pvars, sockrest, _read_task, _read_coro,
                 read_op>>

(* poll finds the socket readable and runs fd._read_task(): _recv, _recvall *)
(* or _recvfrom; the system call fails, returns everything, or (recvall)    *)
(* returns a part                                                           *)
Io_read_event ==
  /\ pc = "for" /\ snapshot = {}
  /\ _fds /\ "r" \in _events /\ _read_task
  /\ nio < MaxIo /\ nio' = nio + 1
  /\ \E out \in {"ok", "error", "partial"} :
       /\ out = "partial" => read_op = "recvall"
       /\ io_event' = <<out, "r">>
       /\ IF out = "partial"
          THEN UNCHANGED <<kvars, _read_task, read_op, _read_coro, _fds, _events, _timeout_id,
                           io_timeouts>>
          ELSE /\ IoCommit(clear(Notifier, "r"))
               /\ _read_task' = FALSE /\ read_op' = "none"
               /\ LET e == IF out = "ok"
                           THEN [K |-> _resume(Kernel, _read_coro, RecvBuf, _AwaitIO_),
                                 coro |-> None]
                           ELSE TaskError(Kernel, _read_coro)
                  IN Commit(e.K) /\ _read_coro' = e.coro
  /\ UNCHANGED <<ioframe, _write_task, _write_coro, write_op, timed_out>>

(* poll finds the socket writable and runs fd._write_task(): _send, _sendto *)
(* or _sendall                                                              *)
Io_write_event ==
  /\ pc = "for" /\ snapshot = {}
  /\ _fds /\ "w" \in _events /\ _write_task
  /\ nio < MaxIo /\ nio' = nio + 1
  /\ \E out \in {"ok", "error", "partial"} :
       /\ out = "partial" => write_op = "sendall"
       /\ io_event' = <<out, "w">>
       /\ IF out = "partial"
          THEN UNCHANGED <<kvars, _write_task, write_op, _write_coro, _fds, _events,
                           _timeout_id, io_timeouts>>
          ELSE /\ IoCommit(clear(Notifier, "w"))
               /\ _write_task' = FALSE /\ write_op' = "none"
               /\ LET e == IF out = "ok"
                           THEN [K |-> _resume(Kernel, _write_coro, Sent, _AwaitIO_),
                                 coro |-> None]
                           ELSE IF write_op = "sendall"
                                THEN SendallError(Kernel, _write_coro)
                                ELSE TaskError(Kernel, _write_coro)
                  IN Commit(e.K) /\ _write_coro' = e.coro
  /\ UNCHANGED <<ioframe, _read_task, _read_coro, read_op, timed_out>>

(* poll gets a hangup for the socket: it is unregistered and the error is   *)
(* thrown to the coroutines of both slots                                   *)
Io_hangup ==
  /\ pc = "for" /\ snapshot = {}
  /\ _fds
  /\ nio < MaxIo /\ nio' = nio + 1
  /\ IoCommit(unregister(Notifier))
  /\ Commit(ThrowTo(ThrowTo(Kernel, _read_coro, SockError), _write_coro, SockError))
  /\ io_event' = <<"hangup", "r">>
  /\ UNCHANGED <<ioframe, _read_task, _read_coro, read_op, _write_task, _write_coro,
                 write_op, timed_out>>

(* _AsynCoroSocket._timed_out *)
_timed_out(K) == ThrowTo(ThrowTo(K, _read_coro, SockTimedOut), _write_coro, SockTimedOut)

(* the loop over the due timeouts at the end of poll(0) *)
RECURSIVE PollTimeouts(_, _, _, _)
PollTimeouts(K, ts, tid, fired) ==
  IF ts # <<>> /\ Head(ts) <= now
  THEN IF tid = Head(ts)
       THEN PollTimeouts(_timed_out(K), Tail(ts), None, TRUE)
       ELSE PollTimeouts(K, Tail(ts), tid, fired)
  ELSE [K |-> K, ts |-> ts, tid |-> tid, fired |-> fired]

(* poll(0) with a timeout of the socket due *)
Io_timeouts ==
  /\ pc = "for" /\ snapshot = {}
  /\ io_timeouts # <<>> /\ Head(io_timeouts) <= now
  /\ nio < MaxIo /\ nio' = nio + 1
  /\ LET r == PollTimeouts(Kernel, io_timeouts, _timeout_id, FALSE)
     IN /\ Commit(r.K)
        /\ io_timeouts' = r.ts /\ _timeout_id' = r.tid
        /\ io_event' = <<IF r.fired THEN "timeout" ELSE "stale", "r">>
        /\ timed_out' = IF r.fired
                        THEN timed_out \cup {d \in {"r", "w"} :
                                          IF d = "r" THEN _read_coro # None /\ _read_task
                                          ELSE _write_coro # None /\ _write_task}
                        ELSE timed_out
  /\ UNCHANGED <<ioframe, _read_task, _read_coro, read_op, _write_task, _write_coro,
                 write_op, _fds, _events>>

NextIo ==
  \/ Add
  \/ Tick
  \/ Schedule_expire
  \/ Schedule_for
  \/ Schedule_try
  \/ Gen_yield
  \/ Gen_return
  \/ Gen_raise
  \/ Io_read_op
  \/ Io_write_op
  \/ Io_read_event
  \/ Io_write_event
  \/ Io_hangup
  \/ Io_timeouts

SpecIo == InitIo /\ [][NextIo]_vars

(***************************************************************************)
(* Requests from other schedulers: _tcp_task and _udp_proc.                *)
(***************************************************************************)
Kinds == {"send", "locate_channel", "locate_coro", "run_rci", "locate_rci", "subscribe",
          "monitor", "exception", "ping", "locate_peer", "other"}
Locates == {"locate_channel", "locate_coro", "locate_rci", "locate_peer"}
ReqIds == 1..MaxReq
RemoteCoro == 81

(* the assert with every auth code passing *)
AuthOK_any(auth) == TRUE

(* 'assert req.auth == self._auth_code' *)
AuthOK(auth) == auth = _auth_code

(* what a task leaves behind, as one value; Quiet is a task that changes  *)
(* nothing and sends nothing                                               *)
Quiet ==
  [K |-> Kernel, monitor |-> _monitor, generator |-> _generator, ncreated |-> ncreated,
   nsent |-> nsent, sentLog |-> sentLog, complete |-> _complete, ready |-> FALSE,
   peers |-> _peers, requests |-> _requests, rchannels |-> _rchannels,
   result |-> async_result, subs |-> net_subs, chan |-> net_chan, conn |-> <<>>]

Reply(x) == [Quiet EXCEPT !.conn = <<x>>]

NetCommit(e, op) ==
  /\ Commit(e.K)
  /\ _monitor' = e.monitor /\ _generator' = e.generator /\ ncreated' = e.ncreated
  /\ nsent' = e.nsent /\ sentLog' = e.sentLog
  /\ _complete' = e.complete
  /\ Interrupt(e.ready, e.K)
  /\ _peers' = e.peers /\ _requests' = e.requests /\ _rchannels' = e.rchannels
  /\ async_result' = e.result /\ net_subs' = e.subs /\ net_chan' = e.chan
  /\ conn' = e.conn /\ net_op' = op
  /\ ncalls < lim.calls /\ ncalls' = ncalls + 1
  /\ UNCHANGED <<_callers, _new_generator, _hot_swappable, svars, now, ngen, nsteps, recvLog,
                 lostAtSwap, monitoredExit, tvars, at, lim, iovars, chanvars, sockvars, lockvars,
                 pvars, _daemon, _daemons, waiter, _terminate, coro_complete, sigs>>

(* request 'send': coro.send or channel.send of the message, then the reply *)
TaskSend(dst, coro_id, channel_name) ==
  IF dst # Self THEN Reply("NAK")
  ELSE IF coro_id # None
       THEN IF coro_id \in _coros
            THEN [Quiet EXCEPT !.K = _resume(Kernel, coro_id, nsent + 1, _AwaitMsg_),
                               !.ready = _state[coro_id] = _AwaitMsg_,
                               !.nsent = nsent + 1,
                               !.sentLog = Set(sentLog, coro_id,
                                               Append(sentLog[coro_id], nsent + 1)),
                               !.conn = <<"ACK">>]
            ELSE Reply("NAK")
       ELSE IF channel_name = LocalChan
            THEN [Quiet EXCEPT !.chan = net_chan + 1, !.conn = <<"ACK">>]
            ELSE Reply("NAK")

(* the reply to a request of this scheduler: the request is popped from    *)
(* _requests and its result is set                                         *)
TaskOwnReply(id, value) ==
  IF ~DictHas(_requests, id) THEN Quiet
  ELSE LET r == CHOOSE e \in _requests : e[1] = id
           popped == [Quiet EXCEPT !.requests = _requests \ {r}]
       IN IF r[2] = "locate_channel"
          THEN [popped EXCEPT !.rchannels = DictSet(_rchannels, NoChan, value),
                              !.result = value]
          ELSE IF value # None THEN [popped EXCEPT !.result = value] ELSE popped

(* locate_channel, locate_coro, locate_rci, locate_peer from another       *)
(* scheduler: the answer goes to req.src over a new connection, with the    *)
(* auth code of that peer, or back on conn when req.src is None             *)
TaskLocate(src, dst, known) ==
  IF known \/ dst = Self
  THEN IF src # NoLoc
       THEN IF DictHas(_peers, Key(src)) THEN Reply("request") ELSE Quiet
       ELSE Reply("value")
  ELSE Quiet

(* request 'run_rci': Coro(method, ...) and the reference to it as reply *)
TaskRunRCI(dst, registered) ==
  IF dst # Self THEN Quiet
  ELSE IF ~registered THEN Reply("not registered")
  ELSE LET c == ncreated + 1
       IN [Quiet EXCEPT !.K = [Kernel EXCEPT !.coros = @ \cup {c},
                                             !.state[c] = _Scheduled,
                                             !.scheduled = @ \cup {c}],
                        !.generator = Set(_generator, c, MainGen(c)),
                        !.ncreated = c,
                        !.complete = FALSE,
                        !.ready = TRUE,
                        !.conn = <<"value">>]

(* request 'subscribe': channel.subscribe(subscriber) *)
TaskSubscribe(dst, channel_name, subscriber) ==
  IF dst = Self /\ channel_name = LocalChan /\ subscriber # None
  THEN [Quiet EXCEPT !.subs = net_subs \cup {subscriber}, !.conn = <<"ACK">>]
  ELSE Reply("NAK")

(* request 'monitor': self._monitor(monitor, coro) with a remote monitor *)
TaskMonitor(dst, coro_id) ==
  IF dst = Self /\ coro_id \in _coros
  THEN [Quiet EXCEPT !.monitor = Set(_monitor, coro_id, RemoteCoro), !.conn = <<"ACK">>]
  ELSE Reply("NAK")

(* request 'exception': self._throw(coro, *exc) *)
TaskException(dst, coro_id) ==
  IF dst = Self /\ coro_id \in _coros
  THEN [Quiet EXCEPT !.K = _throw(Kernel, coro_id, UserError),
                     !.ready = _state[coro_id] \in Waiting,
                     !.conn = IF _state[coro_id] = _Running THEN <<"NAK">> ELSE <<"ACK">>]
  ELSE Reply("NAK")

(* request 'ping': 'ACK' is sent, and when the peer answers 'ACK' the peer *)
(* is recorded with sha1(its signature + self._secret), which also becomes *)
(* the auth code of every pending request                                  *)
TaskPing(peer, signature, acked) ==
  LET auth_code == Hash(signature, _secret)
  IN IF acked
     THEN [Quiet EXCEPT !.peers = DictSet(_peers, Key(peer), auth_code),
                        !.requests = {<<r[1], r[2], auth_code>> : r \in _requests},
                        !.conn = <<"ACK">> \o [i \in 1..Cardinality(_requests) |-> "request"]]
     ELSE Reply("ACK")

(* AsynCoro._tcp_task: the request read from an accepted connection *)
Tcp_task ==
  /\ LockFree
  /\ \E request \in Kinds, auth \in AuthCodes :
       IF ~AuthOK(auth)
       THEN NetCommit(Quiet, <<"tcp", auth = _auth_code, NoLoc, FALSE, FALSE>>)
       ELSE \E src \in {NoLoc, Self, <<2, 1>>}, dst \in {NoLoc, Self} :
       IF src = Self
       THEN \E id \in ReqIds, value \in {None, Found} :
              NetCommit(TaskOwnReply(id, value),
                        <<"tcp", auth = _auth_code, NoLoc, FALSE, FALSE>>)
       ELSE CASE request = "send" ->
                   \E coro_id \in {None} \cup 1..NetCoros, channel_name \in {None, LocalChan, NoChan} :
                     /\ nsent < MaxMsg /\ net_chan < MaxMsg
                     /\ NetCommit(TaskSend(dst, coro_id, channel_name),
                                  <<"tcp", auth = _auth_code, NoLoc, FALSE, FALSE>>)
              [] request \in Locates ->
                   \E known \in BOOLEAN :
                     NetCommit(TaskLocate(src, dst, known),
                               <<"tcp", auth = _auth_code, NoLoc, FALSE, FALSE>>)
              [] request = "run_rci" ->
                   \E registered \in BOOLEAN :
                     /\ ncreated < lim.coros
                     /\ NetCommit(TaskRunRCI(dst, registered),
                                  <<"tcp", auth = _auth_code, NoLoc, FALSE, FALSE>>)
              [] request = "subscribe" ->
                   \E channel_name \in {LocalChan, NoChan}, subscriber \in {None, RemoteCoro} :
                     NetCommit(TaskSubscribe(dst, channel_name, subscriber),
                               <<"tcp", auth = _auth_code, NoLoc, FALSE, FALSE>>)
              [] request = "monitor" ->
                   \E coro_id \in 1..NetCoros :
                     NetCommit(TaskMonitor(dst, coro_id),
                               <<"tcp", auth = _auth_code, NoLoc, FALSE, FALSE>>)
              [] request = "exception" ->
                   \E coro_id \in 1..NetCoros :
                     /\ coro_id \in _coros => Len(_exceptions[coro_id]) < MaxExc
                     /\ NetCommit(TaskException(dst, coro_id),
                                  <<"tcp", auth = _auth_code, NoLoc, FALSE, FALSE>>)
              [] request = "ping" ->
                   \E peer \in Peers, acked \in BOOLEAN :
                     NetCommit(TaskPing(peer, sigs[peer], acked),
                               <<"ping", auth = _auth_code, peer, acked, DictHas(_peers, Key(peer))>>)
              [] OTHER ->
                   NetCommit(Quiet, <<"tcp", auth = _auth_code, NoLoc, FALSE, FALSE>>)

(* the scheduler at location l answers a 'ping' request carrying auth with *)
(* 'ACK': its own 'assert req.auth == self._auth_code'                     *)
PeerAccepts(l, auth) == auth = Hash(sigs[l], PeerSecret(l))

(* AsynCoro._udp_proc: one datagram; for a PING of another location the    *)
(* 'ping' request is sent there and the peer is recorded when it answers   *)
(* 'ACK'                                                                   *)
Udp_proc ==
  /\ LockFree
  /\ \E ping \in BOOLEAN, location \in {Self} \cup Peers, signature \in Sigs, up \in BOOLEAN :
       LET auth_code == Hash(signature, _secret)
           acked == up /\ PeerAccepts(location, auth_code)
           op == IF ping /\ location # Self
                 THEN <<"ping", TRUE, location, acked, DictHas(_peers, Key(location))>>
                 ELSE <<"udp", TRUE, NoLoc, FALSE, FALSE>>
       IN IF ~ping \/ location = Self THEN NetCommit(Quiet, op)
          ELSE IF ~up THEN NetCommit(Quiet, op)
          ELSE IF acked
          THEN NetCommit([Quiet EXCEPT !.peers = DictSet(_peers, Key(location), auth_code),
                                       !.conn = <<"request", "ACK">>], op)
          ELSE NetCommit(Reply("request"), op)

(* a locate_* call without a location: the request, with this scheduler as *)
(* its src, is kept in _requests until a reply comes                       *)
Net_request ==
  /\ LockFree
  /\ \E id \in ReqIds, request \in Locates :
       /\ ~DictHas(_requests, id)
       /\ NetCommit([Quiet EXCEPT !.requests = _requests \cup {<<id, request, None>>},
                                  !.conn = [i \in 1..Cardinality(_peers) |-> "request"]],
                    <<"request", TRUE, NoLoc, FALSE, FALSE>>)

(* the scheduler at a peer location is started anew: AsynCoro.__init__     *)
(* draws its signature                                                     *)
Peer_restart ==
  /\ \E l \in Peers : \E sg \in PeerSigs \ {sigs[l]} :
       /\ sigs' = Set(sigs, l, sg)
       /\ net_op' = <<"restart", TRUE, NoLoc, FALSE, FALSE>>
       /\ conn' = <<>>
  /\ ncalls < lim.calls /\ ncalls' = ncalls + 1
  /\ UNCHANGED <<kvars, cvars, svars, now, ncreated, nsent, ngen, nsteps, hvars, at, lim, iovars, chanvars, sockvars, lockvars,
                 pvars, nvars, dvars, _peers, _requests, _rchannels, async_result, net_subs,
                 net_chan>>

NextNet == Tcp_task \/ Udp_proc \/ Net_request \/ Peer_restart

SpecNet == InitNet /\ [][NextNet]_vars

(* ---------------------------------------------------------------------- *)
(* SyncChannel (send, deliver, receive) with the Event it waits on          *)
(*                                                                          *)
(* The coroutines exist from the start; an action is one step of a          *)
(* coroutine as _schedule runs it: from the send into its generator to the  *)
(* next yield or StopIteration.                                             *)
(* ---------------------------------------------------------------------- *)

InitReady ==
  /\ _coros = Coros /\ _cur_coro = None /\ _scheduled = Coros /\ _suspended = {}
  /\ _timeouts = <<>>
  /\ _state = [c \in Coros |-> _Scheduled]
  /\ _value = [c \in Coros |-> None]
  /\ _exceptions = [c \in Coros |-> <<>>]
  /\ _callers = [c \in Coros |-> <<>>]
  /\ _timeout = [c \in Coros |-> None]
  /\ _msgs = [c \in Coros |-> <<>>]
  /\ _monitor = [c \in Coros |-> None]
  /\ _new_generator = [c \in Coros |-> None]
  /\ _hot_swappable = [c \in Coros |-> FALSE]
  /\ _generator = [c \in Coros |-> MainGen(c)]
  /\ pc = "for" /\ snapshot = {} /\ cid = None /\ retval = Unbound
  /\ inj = NoInj /\ yv = None
  /\ at = [c \in Coros |-> "start"]
  /\ now = 0 /\ ncreated = NCoro /\ nsent = 0 /\ ngen = 0 /\ ncalls = 0 /\ nsteps = 0
  /\ recvLog = [c \in Coros |-> <<>>]
  /\ sentLog = [c \in Coros |-> <<>>]
  /\ lostAtSwap = [c \in Coros |-> {}]
  /\ monitoredExit = {}
  /\ alarmOf = [c \in Coros |-> None]
  /\ lastWake = [c \in Coros |-> <<>>]
  /\ ignoredSwap = {}
  /\ suspend_call = <<>>
  /\ call = <<>>
  /\ _polling = FALSE /\ interrupts = 0
  /\ _daemon = [c \in Coros |-> FALSE] /\ _daemons = 0 /\ _complete = FALSE
  /\ waiter = "none"
  /\ _terminate = FALSE /\ coro_complete = {}
  /\ InitNotifier
  /\ InitNetwork

InitCoros == InitReady /\ lim = Solo

InitChan == InitCoros /\ InitChannel /\ InitSocket /\ InitLock /\ InitPrims

(* what a step of the channel model leaves alone *)
notchan == <<cvars, svars, ncreated, ngen, budget, hvars, at, lim, iovars, nvars, dvars, netvars, sockvars, lockvars, pvars>>

(* _schedule picks the coroutine: it is scheduled and nothing is to be thrown *)
Ready(c) ==
  c \in _coros /\ c \in _scheduled /\ _state[c] = _Scheduled /\ _exceptions[c] = <<>>

(* the else branch of _schedule after a yield of rv *)
YieldEnd(K, c, rv) ==
  IF K.state[c] = _Running
  THEN [K EXCEPT !.state[c] = _Scheduled, !.value[c] = rv]
  ELSE K

(* the except branch of _schedule after StopIteration(v) in a sub-generator *)
StopEnd(K, c, v) ==
  [K EXCEPT !.value[c] = v,
            !.state[c] = IF @ = _Running THEN _Scheduled ELSE @]

(* for c in q: c._proceed_(v) *)
RECURSIVE ProceedAll(_, _, _)
ProceedAll(K, q, v) ==
  IF q = <<>> THEN K
  ELSE ProceedAll(_resume(K, Head(q), v, _AwaitIO_), Tail(q), v)

Truthy(v) == v \notin {None, 0}

(* yield channel.receive(coro, timeout, alarm_value) *)
Chan_receive ==
  /\ chan_ops < MaxChanOps
  /\ \E c \in Coros, tmo \in {None, MaxTimeout} :
       /\ Ready(c) /\ chan_at[c] = "idle"
       /\ tmo # None => Len(_timeouts) < MaxTimers
       /\ LET rec1 == Append(_recipients, c)
              set == Len(rec1) = MinReceivers
              K1 == IF set THEN ProceedAll(SetRunning(Kernel, c), _waitlist, PyTrue)
                    ELSE SetRunning(Kernel, c)
              r == _suspend(K1, c, tmo, Alarm, _AwaitIO_)
          IN /\ Commit(YieldEnd(r.K, c, None))
             /\ _recipients' = rec1
             /\ _flag' = (set \/ _flag)
             /\ _waitlist' = IF set THEN <<>> ELSE _waitlist
       /\ chan_at' = Set(chan_at, c, "recv")
  /\ chan_ops' = chan_ops + 1
  /\ UNCHANGED <<notchan, now, nsent, chan_msg, delivered, got>>

(* the receive returns: the value the coroutine was woken with *)
Chan_received ==
  /\ \E c \in Coros :
       /\ Ready(c) /\ chan_at[c] = "recv"
       /\ got' = Set(got, c, _value[c])
       /\ chan_at' = Set(chan_at, c, "idle")
       /\ Commit(YieldEnd(SetRunning(Kernel, c), c, None))
  /\ UNCHANGED <<notchan, now, nsent, _recipients, _flag, _waitlist, chan_msg, chan_ops,
                 delivered>>

(* channel.send(message), by another sender *)
Chan_send ==
  /\ chan_ops < MaxChanOps /\ nsent < MaxMsg
  /\ Commit(ProceedAll(Kernel, _recipients, nsent + 1))
  /\ _recipients' = <<>>
  /\ _flag' = FALSE
  /\ nsent' = nsent + 1
  /\ chan_ops' = chan_ops + 1
  /\ UNCHANGED <<notchan, now, _waitlist, chan_at, chan_msg, delivered, got>>

(* yield channel.deliver(message): the generator is yielded to _schedule *)
Chan_deliver_call ==
  /\ chan_ops < MaxChanOps /\ nsent < MaxMsg
  /\ \E c \in Coros :
       /\ Ready(c) /\ chan_at[c] = "idle"
       /\ chan_msg' = Set(chan_msg, c, nsent + 1)
       /\ chan_at' = Set(chan_at, c, "deliver")
       /\ Commit(YieldEnd(SetRunning(Kernel, c), c, None))
  /\ nsent' = nsent + 1
  /\ chan_ops' = chan_ops + 1
  /\ UNCHANGED <<notchan, now, _recipients, _flag, _waitlist, delivered, got>>

(* deliver, from 'msg = ChannelMessage(...)' to 'raise StopIteration(True)' *)
DeliverLoop(c) ==
  LET K0 == SetRunning(Kernel, c)
      handed == {r \in Range(_recipients) : K0.state[r] = _AwaitIO_ /\ chan_at[r] = "recv"}
  IN /\ Commit(StopEnd(ProceedAll(K0, _recipients, chan_msg[c]), c, PyTrue))
     /\ _recipients' = <<>>
     /\ _flag' = FALSE
     /\ delivered' = delivered \cup {<<chan_msg[c], Cardinality(handed)>>}
     /\ chan_at' = Set(chan_at, c, "idle")
     /\ UNCHANGED _waitlist

(* deliver starts: too few recipients, it yields self._event.wait() *)
Chan_deliver_start ==
  /\ \E c \in Coros :
       /\ Ready(c) /\ chan_at[c] = "deliver"
       /\ IF Len(_recipients) < MinReceivers
          THEN /\ chan_at' = Set(chan_at, c, "wait")
               /\ Commit(YieldEnd(SetRunning(Kernel, c), c, None))
               /\ UNCHANGED <<_recipients, _flag, _waitlist, delivered>>
          ELSE DeliverLoop(c)
  /\ UNCHANGED <<notchan, now, nsent, chan_msg, chan_ops, got>>

(* Event.wait(): a turn of its loop *)
Chan_event_wait ==
  /\ \E c \in Coros :
       /\ Ready(c) /\ chan_at[c] = "wait"
       /\ IF _flag
          THEN /\ Commit(StopEnd(SetRunning(Kernel, c), c, PyTrue))
               /\ chan_at' = Set(chan_at, c, "waited")
               /\ UNCHANGED _waitlist
          ELSE /\ _waitlist' = Append(_waitlist, c)
               /\ LET r == _suspend(SetRunning(Kernel, c), c, None, None, _AwaitIO_)
                  IN Commit(YieldEnd(r.K, c, r.ret))
               /\ UNCHANGED chan_at
  /\ UNCHANGED <<notchan, now, nsent, _recipients, _flag, chan_msg, chan_ops, delivered, got>>

(* deliver after 'yield self._event.wait()' *)
Chan_deliver_resume ==
  /\ \E c \in Coros :
       /\ Ready(c) /\ chan_at[c] = "waited"
       /\ IF ~Truthy(_value[c])
          THEN /\ Commit(StopEnd(SetRunning(Kernel, c), c, None))
               /\ chan_at' = Set(chan_at, c, "idle")
               /\ UNCHANGED <<_recipients, _flag, _waitlist, delivered>>
          ELSE DeliverLoop(c)
  /\ UNCHANGED <<notchan, now, nsent, chan_msg, chan_ops, got>>

(* the timer loop of _schedule *)
Chan_expire ==
  /\ Commit(ExpireTimers(Kernel, now + Slack))
  /\ UNCHANGED <<notchan, now, nsent, chanvars>>

NextChan ==
  \/ Chan_receive
  \/ Chan_received
  \/ Chan_send
  \/ Chan_deliver_call
  \/ Chan_deliver_start
  \/ Chan_event_wait
  \/ Chan_deliver_resume
  \/ Chan_expire
  \/ Tick

SpecChan == InitChan /\ [][NextChan]_vars

(* ---------------------------------------------------------------------- *)
(* _AsynCoroSocket: send_msg on one end and recv_msg on the other, over     *)
(* sendall and recvall.  Coroutine 1 sends, coroutine 2 receives; the       *)
(* socket's send and recv_into move any number of bytes they are allowed.   *)
(* ---------------------------------------------------------------------- *)

Sender == 1
Receiver == 2
Bytes == 0..MaxByte
Payloads == UNION {[1..n -> Bytes] : n \in 0..MaxLen}

(* struct.pack('>L', n) and struct.unpack('>L', b)[0] *)
Pack(n) == <<(n \div 16777216) % 256, (n \div 65536) % 256, (n \div 256) % 256, n % 256>>
Unpack(b) == b[1] * 16777216 + b[2] * 65536 + b[3] * 256 + b[4]

(* recv_into(view, ...) forgetting what the buffer already holds *)
RecvInto_restarts(buf, data) == data

(* recv_into(view, ...): the bytes go behind those already in the buffer *)
RecvInto(buf, data) == buf \o data

(* the payloads the sender is going to send, in order *)
InitFrame ==
  /\ InitCoros /\ InitChannel /\ InitLock /\ InitPrims
  /\ wire = <<>> /\ _write_task = FALSE /\ _write_result = <<>>
  /\ _read_task = FALSE /\ _read_result = <<>> /\ view_len = 0
  /\ send_at = "idle" /\ recv_at = "idle" /\ recv_value = <<>> /\ recv_n = 0
  /\ to_send \in [1..MaxMsg -> Payloads]
  /\ sent_msgs = <<>> /\ recv_msgs = <<>> /\ wireLog = <<>> /\ split = FALSE

notsock == <<cvars, svars, evars, hvars, at, lim, iovars, nvars, dvars, netvars, chanvars, lockvars, pvars>>

(* yield sock.send_msg(x): the generator is yielded to _schedule *)
Sock_send_msg ==
  /\ Ready(Sender) /\ send_at = "idle" /\ to_send # <<>>
  /\ send_at' = "send_msg"
  /\ sent_msgs' = Append(sent_msgs, Head(to_send))
  /\ Commit(YieldEnd(SetRunning(Kernel, Sender), Sender, None))
  /\ UNCHANGED <<notsock, wire, _write_task, _write_result, _read_task, _read_result, view_len, recv_at, recv_value,
                 recv_n, to_send, recv_msgs, wireLog, split>>

(* _async_send_msg up to its yield, with the call of _async_sendall *)
Sock_sendall ==
  /\ Ready(Sender) /\ send_at = "send_msg"
  /\ _write_result' = Pack(Len(Head(to_send))) \o Head(to_send)
  /\ _write_task' = TRUE
  /\ to_send' = Tail(to_send)
  /\ send_at' = "sendall"
  /\ LET r == _suspend(SetRunning(Kernel, Sender), Sender, None, None, _AwaitIO_)
     IN Commit(YieldEnd(r.K, Sender, None))
  /\ UNCHANGED <<notsock, wire, _read_task, _read_result, view_len, recv_at, recv_value, recv_n,
                 sent_msgs, recv_msgs, wireLog, split>>

(* _sendall, the write task the notifier runs when the socket is writable *)
Sock_sendall_task ==
  /\ _write_task
  /\ \E sent \in 1..Len(_write_result) :
       /\ wire' = wire \o SubSeq(_write_result, 1, sent)
       /\ wireLog' = wireLog \o SubSeq(_write_result, 1, sent)
       /\ IF sent = Len(_write_result)
          THEN /\ _write_result' = <<>>
               /\ _write_task' = FALSE
               /\ Commit(_resume(Kernel, Sender, 0, _AwaitIO_))
          ELSE /\ _write_result' = SubSeq(_write_result, sent + 1, Len(_write_result))
               /\ UNCHANGED <<kvars, _write_task>>
  /\ UNCHANGED <<notsock, _read_task, _read_result, view_len, send_at, recv_at, recv_value, recv_n,
                 to_send, sent_msgs, recv_msgs, split>>

(* _async_send_msg after its yield: the generator ends *)
Sock_send_msg_done ==
  /\ Ready(Sender) /\ send_at = "sendall"
  /\ send_at' = "idle"
  /\ Commit(StopEnd(SetRunning(Kernel, Sender), Sender, _value[Sender]))
  /\ UNCHANGED <<notsock, wire, _write_task, _write_result, _read_task, _read_result, view_len, recv_at, recv_value,
                 recv_n, to_send, sent_msgs, recv_msgs, wireLog, split>>

(* yield sock.recv_msg(): the generator is yielded to _schedule *)
Sock_recv_msg ==
  /\ Ready(Receiver) /\ recv_at = "idle"
  /\ Len(recv_msgs) < Len(sent_msgs) + Len(to_send)
  /\ recv_at' = "recv_msg"
  /\ Commit(YieldEnd(SetRunning(Kernel, Receiver), Receiver, None))
  /\ UNCHANGED <<notsock, wire, _write_task, _write_result, _read_task, _read_result, view_len, send_at, recv_value,
                 recv_n, to_send, sent_msgs, recv_msgs, wireLog, split>>

(* _async_recvall(bufsize): the buffer, the read task, _await_ *)
recvall(bufsize) ==
  /\ _read_result' = <<>>
  /\ _read_task' = TRUE
  /\ view_len' = bufsize
  /\ LET r == _suspend(SetRunning(Kernel, Receiver), Receiver, None, None, _AwaitIO_)
     IN Commit(YieldEnd(r.K, Receiver, None))

(* _async_recv_msg up to 'yield self.recvall(n)' for the length *)
Sock_recv_header ==
  /\ Ready(Receiver) /\ recv_at = "recv_msg"
  /\ recvall(4)
  /\ recv_at' = "header"
  /\ UNCHANGED <<notsock, wire, _write_task, _write_result, send_at, recv_value, recv_n, to_send,
                 sent_msgs, recv_msgs, wireLog, split>>

(* _recvall, the read task the notifier runs when the socket is readable *)
Sock_recvall_task ==
  /\ _read_task
  /\ wire # <<>>
  /\ \E recvd \in 0..view_len :
       /\ recvd <= Len(wire)
       /\ recvd = 0 => view_len = 0
       /\ wire' = SubSeq(wire, recvd + 1, Len(wire))
       /\ IF recvd > 0
          THEN LET buf == RecvInto(_read_result, SubSeq(wire, 1, recvd))
               IN IF view_len - recvd = 0
                  THEN /\ recv_value' = buf
                       /\ _read_result' = <<>>
                       /\ _read_task' = FALSE
                       /\ view_len' = 0
                       /\ Commit(_resume(Kernel, Receiver, Update, _AwaitIO_))
                       /\ UNCHANGED split
                  ELSE /\ _read_result' = buf
                       /\ view_len' = view_len - recvd
                       /\ split' = TRUE
                       /\ UNCHANGED <<kvars, recv_value, _read_task>>
          ELSE /\ recv_value' = <<>>
               /\ _read_result' = <<>>
               /\ _read_task' = FALSE
               /\ Commit(_resume(Kernel, Receiver, Update, _AwaitIO_))
               /\ UNCHANGED <<view_len, split>>
  /\ UNCHANGED <<notsock, _write_task, _write_result, send_at, recv_at, recv_n, to_send, sent_msgs,
                 recv_msgs, wireLog>>

(* _async_recv_msg with the length: unpack, 'yield self.recvall(n)' *)
Sock_recv_payload ==
  /\ Ready(Receiver) /\ recv_at = "header"
  /\ IF Len(recv_value) # 4
     THEN /\ recv_msgs' = Append(recv_msgs, <<>>)
          /\ recv_at' = "idle"
          /\ Commit(StopEnd(SetRunning(Kernel, Receiver), Receiver, Update))
          /\ UNCHANGED <<_read_task, _read_result, view_len, recv_n>>
     ELSE /\ recv_n' = Unpack(recv_value)
          /\ recvall(Unpack(recv_value))
          /\ recv_at' = "payload"
          /\ UNCHANGED recv_msgs
  /\ UNCHANGED <<notsock, wire, _write_task, _write_result, send_at, recv_value, to_send, sent_msgs,
                 wireLog, split>>

(* _async_recv_msg with the payload: 'yield data' *)
Sock_recv_yield ==
  /\ Ready(Receiver) /\ recv_at = "payload"
  /\ IF Len(recv_value) # recv_n
     THEN /\ recv_msgs' = Append(recv_msgs, <<>>)
          /\ recv_at' = "idle"
          /\ Commit(StopEnd(SetRunning(Kernel, Receiver), Receiver, Update))
     ELSE /\ recv_at' = "yielded"
          /\ Commit(YieldEnd(SetRunning(Kernel, Receiver), Receiver, Update))
          /\ UNCHANGED recv_msgs
  /\ UNCHANGED <<notsock, wire, _write_task, _write_result, _read_task, _read_result, view_len, send_at, recv_value,
                 recv_n, to_send, sent_msgs, wireLog, split>>

(* the generator ends after 'yield data': the caller gets the value kept *)
Sock_recv_msg_done ==
  /\ Ready(Receiver) /\ recv_at = "yielded"
  /\ recv_msgs' = Append(recv_msgs, recv_value)
  /\ recv_at' = "idle"
  /\ Commit(StopEnd(SetRunning(Kernel, Receiver), Receiver, _value[Receiver]))
  /\ UNCHANGED <<notsock, wire, _write_task, _write_result, _read_task, _read_result, view_len, send_at, recv_value,
                 recv_n, to_send, sent_msgs, wireLog, split>>

NextFrame ==
  \/ Sock_send_msg
  \/ Sock_sendall
  \/ Sock_sendall_task
  \/ Sock_send_msg_done
  \/ Sock_recv_msg
  \/ Sock_recv_header
  \/ Sock_recvall_task
  \/ Sock_recv_payload
  \/ Sock_recv_yield
  \/ Sock_recv_msg_done

SpecFrame == InitFrame /\ [][NextFrame]_vars

(* ---------------------------------------------------------------------- *)
(* Lock: coroutines that acquire, blocking or not, and release one lock.    *)
(* ---------------------------------------------------------------------- *)

notlock == <<cvars, _cur_coro, pc, cid, retval, inj, yv, evars, hvars, at, lim, iovars, nvars, dvars, netvars, chanvars,
             sockvars, pvars>>

(* _schedule comes to c in its pass over the copy it took of _scheduled *)
Turn(c) == c \in snapshot /\ Ready(c)

(* 'if self._owner is None' taken as true whoever owns the lock *)
LockIsFree_always(owner) == TRUE

(* 'if self._owner is None' in the loop of acquire *)
LockIsFree(owner) == owner = None

(* yield lock.acquire(blocking): the generator is yielded to _schedule *)
Lock_acquire ==
  /\ lock_ops < MaxLockOps
  /\ \E c \in Coros, blocking \in BOOLEAN :
       /\ Turn(c) /\ lock_at[c] = "idle"
       /\ snapshot' = snapshot \ {c}
       /\ lock_at' = Set(lock_at, c, "acquire")
       /\ lock_blocking' = Set(lock_blocking, c, blocking)
       /\ lock_ret' = Set(lock_ret, c, "none")
       /\ waited' = Set(waited, c, FALSE)
       /\ late' = IF _owner = None /\ waitSeq # <<>> THEN late \cup {c} ELSE late \ {c}
       /\ Commit(YieldEnd(SetRunning(Kernel, c), c, None))
  /\ lock_ops' = lock_ops + 1
  /\ UNCHANGED <<notlock, _owner, lock_waitlist, granted, holders, waitSeq>>

(* acquire from its start, or from its yield, to its next yield or its end *)
Lock_acquire_run ==
  \E c \in Coros :
    /\ Turn(c) /\ lock_at[c] \in {"acquire", "wait"}
    /\ snapshot' = snapshot \ {c}
    /\ IF lock_at[c] = "acquire" /\ ~lock_blocking[c] /\ _owner # None
       THEN /\ lock_ret' = Set(lock_ret, c, "False")
            /\ lock_at' = Set(lock_at, c, "idle")
            /\ Commit(StopEnd(SetRunning(Kernel, c), c, 0))
            /\ UNCHANGED <<_owner, lock_waitlist, waited, granted, holders, waitSeq>>
       ELSE IF LockIsFree(_owner)
       THEN /\ _owner' = c
            /\ lock_ret' = Set(lock_ret, c, "True")
            /\ lock_at' = Set(lock_at, c, "idle")
            /\ granted' = granted \cup {c}
            /\ holders' = holders \cup {c}
            /\ waitSeq' = SelectSeq(waitSeq, LAMBDA w : w # c)
            /\ Commit(StopEnd(SetRunning(Kernel, c), c, PyTrue))
            /\ UNCHANGED <<lock_waitlist, waited>>
       ELSE /\ lock_waitlist' = Append(lock_waitlist, c)
            /\ lock_at' = Set(lock_at, c, "wait")
            /\ waited' = Set(waited, c, TRUE)
            /\ LET r == _suspend(SetRunning(Kernel, c), c, None, None, _AwaitIO_)
               IN Commit(YieldEnd(r.K, c, None))
            /\ waitSeq' = IF c \in Range(waitSeq) THEN waitSeq ELSE Append(waitSeq, c)
            /\ UNCHANGED <<_owner, lock_ret, granted, holders>>
    /\ UNCHANGED <<notlock, lock_blocking, lock_ops, late>>

(* lock.release() by the coroutine that runs, whoever owns the lock; with   *)
(* no owner it raises RuntimeError and changes nothing                      *)
Lock_release ==
  /\ lock_ops < MaxLockOps
  /\ \E c \in Coros :
       /\ Turn(c) /\ lock_at[c] = "idle"
       /\ snapshot' = snapshot \ {c}
       /\ _owner # None
       /\ _owner' = None
       /\ granted' = {}
       /\ holders' = holders \ {c}
       /\ LET K1 == SetRunning(Kernel, c)
              K2 == IF lock_waitlist # <<>>
                    THEN _resume(K1, Head(lock_waitlist), None, _AwaitIO_)
                    ELSE K1
          IN Commit(YieldEnd(K2, c, None))
       /\ lock_waitlist' = IF lock_waitlist # <<>> THEN Tail(lock_waitlist) ELSE <<>>
  /\ lock_ops' = lock_ops + 1
  /\ UNCHANGED <<notlock, lock_at, lock_blocking, lock_ret, waited, waitSeq, late>>

(* _schedule passes a coroutine that is no longer scheduled, or runs one    *)
(* that does nothing with the lock up to its next yield                     *)
Sync_pass ==
  /\ \E c \in snapshot :
       /\ snapshot' = snapshot \ {c}
       /\ IF Ready(c)
          THEN /\ lock_at[c] = "idle" /\ sync_at[c] = "idle"
               /\ Commit(YieldEnd(SetRunning(Kernel, c), c, None))
          ELSE UNCHANGED kvars
  /\ UNCHANGED <<notlock, lockvars>>

(* _schedule ends a pass, makes the due timed waits ready and copies        *)
(* _scheduled for the next                                                   *)
Sync_round ==
  /\ snapshot = {}
  /\ LET K1 == ExpireTimers(Kernel, now + Slack)
     IN /\ K1.scheduled # {}
        /\ Commit(K1)
        /\ snapshot' = K1.scheduled
  /\ UNCHANGED <<notlock, lockvars>>

NextLock ==
  \/ Lock_acquire
  \/ Lock_acquire_run
  \/ Lock_release
  \/ Sync_pass
  \/ Sync_round

SpecLock == InitChan /\ [][NextLock]_vars

(* Coro.throw by another thread for a coroutine suspended in acquire *)
Lock_throw ==
  /\ lock_ops < MaxLockOps
  /\ \E c \in Coros :
       /\ lock_at[c] = "wait" /\ _state[c] = _AwaitIO_
       /\ _exceptions[c] = <<>>
       /\ Commit(_throw(Kernel, c, UserError))
  /\ lock_ops' = lock_ops + 1
  /\ UNCHANGED <<notlock, snapshot, _owner, lock_waitlist, lock_at, lock_blocking, lock_ret,
                 waited, granted, holders, waitSeq, late>>

(* _schedule throws the exception into acquire at its yield: it leaves      *)
(* acquire, which has no handler, and is raised in the body at its          *)
(* 'yield lock.acquire()', which handles it and yields.  _waitlist is not   *)
(* touched.                                                                 *)
Lock_acquire_thrown ==
  /\ \E c \in snapshot :
       /\ c \in _coros /\ _state[c] = _Scheduled /\ _exceptions[c] # <<>>
       /\ lock_at[c] = "wait"
       /\ snapshot' = snapshot \ {c}
       /\ lock_at' = Set(lock_at, c, "idle")
       /\ lock_ret' = Set(lock_ret, c, "raised")
       /\ Commit(YieldEnd([SetRunning(Kernel, c) EXCEPT !.exceptions[c] = <<>>], c, None))
  /\ UNCHANGED <<notlock, _owner, lock_waitlist, lock_blocking, lock_ops, waited, granted,
                 holders, waitSeq, late>>

NextLockThrow ==
  \/ Lock_acquire
  \/ Lock_acquire_run
  \/ Lock_release
  \/ Lock_throw
  \/ Lock_acquire_thrown
  \/ Sync_pass
  \/ Sync_round

SpecLockThrow == InitChan /\ [][NextLockThrow]_vars

(* ---------------------------------------------------------------------- *)
(* RLock, and Condition whose acquire and release are the same code.        *)
(* ---------------------------------------------------------------------- *)

notsync == <<cvars, _cur_coro, pc, cid, retval, inj, yv, evars, hvars, at, lim, iovars, nvars, dvars, netvars, sockvars,
             lockvars>>
notprim == <<notsync, chanvars, semvars, achanvars>>

(* 'raise RuntimeError(... % (coro.name, id(coro), self._owner.name, ...))':  *)
(* the message is formatted first, and None has no attribute 'name'         *)
ReleaseError(owner) == IF owner = None THEN "AttributeError" ELSE "RuntimeError"

(* 'if self._depth == 0' in release taken as true at every depth *)
HandsOff_always(depth) == TRUE

(* 'if self._depth == 0' in release, after the decrement *)
HandsOff(depth) == depth = 0

(* yield rlock.acquire(blocking): the generator is yielded to _schedule *)
RLock_acquire ==
  /\ sync_ops < lim.ops
  /\ \E c \in Coros, blocking \in BOOLEAN :
       /\ Turn(c) /\ sync_at[c] = "idle"
       /\ snapshot' = snapshot \ {c}
       /\ sync_at' = Set(sync_at, c, "acquire")
       /\ sync_loc' = Set(sync_loc, c, [NoLocals EXCEPT !.blocking = blocking])
       /\ sync_res' = Set(sync_res, c, "none")
       /\ Commit(YieldEnd(SetRunning(Kernel, c), c, None))
  /\ sync_ops' = sync_ops + 1
  /\ UNCHANGED <<notprim, condvars>>

(* acquire from its start, or from its yield, to its next yield or its end *)
RLock_acquire_run ==
  \E c \in Coros :
    /\ Turn(c) /\ sync_at[c] \in {"acquire", "wait"}
    /\ snapshot' = snapshot \ {c}
    /\ IF sync_at[c] = "acquire" /\ ~sync_loc[c].blocking /\ ~(rl_owner = None \/ rl_owner = c)
       THEN /\ sync_res' = Set(sync_res, c, "False")
            /\ sync_at' = Set(sync_at, c, "idle")
            /\ Commit(StopEnd(SetRunning(Kernel, c), c, 0))
            /\ UNCHANGED condvars
       ELSE IF rl_owner = None /\ _depth # 0
       THEN /\ sync_res' = Set(sync_res, c, "AssertionError")
            /\ sync_at' = Set(sync_at, c, "idle")
            /\ Commit(StopEnd(SetRunning(Kernel, c), c, None))
            /\ UNCHANGED condvars
       ELSE IF rl_owner = None \/ rl_owner = c
       THEN /\ rl_owner' = c
            /\ _depth' = _depth + 1
            /\ held' = Set(held, c, held[c] + 1)
            /\ sync_res' = Set(sync_res, c, "True")
            /\ sync_at' = Set(sync_at, c, "idle")
            /\ Commit(StopEnd(SetRunning(Kernel, c), c, PyTrue))
            /\ UNCHANGED <<rl_waitlist, _notifylist>>
       ELSE /\ rl_waitlist' = Append(rl_waitlist, c)
            /\ sync_at' = Set(sync_at, c, "wait")
            /\ LET r == _suspend(SetRunning(Kernel, c), c, None, None, _AwaitIO_)
               IN Commit(YieldEnd(r.K, c, None))
            /\ UNCHANGED <<rl_owner, _depth, _notifylist, held, sync_res>>
    /\ UNCHANGED <<notprim, sync_loc, sync_ops>>

(* rlock.release() by the coroutine that runs *)
RLock_release ==
  /\ sync_ops < lim.ops
  /\ \E c \in Coros :
       /\ Turn(c) /\ sync_at[c] = "idle"
       /\ snapshot' = snapshot \ {c}
       /\ IF rl_owner # c
          THEN /\ sync_res' = Set(sync_res, c, ReleaseError(rl_owner))
               /\ Commit(YieldEnd(SetRunning(Kernel, c), c, None))
               /\ UNCHANGED condvars
          ELSE /\ sync_res' = Set(sync_res, c, "released")
               /\ _depth' = _depth - 1
               /\ held' = Set(held, c, held[c] - 1)
               /\ LET wake == HandsOff(_depth - 1) /\ rl_waitlist # <<>>
                      K1 == SetRunning(Kernel, c)
                      K2 == IF wake THEN _resume(K1, Head(rl_waitlist), None, _AwaitIO_)
                            ELSE K1
                  IN /\ rl_owner' = IF HandsOff(_depth - 1) THEN None ELSE rl_owner
                     /\ rl_waitlist' = IF wake THEN Tail(rl_waitlist) ELSE rl_waitlist
                     /\ Commit(YieldEnd(K2, c, None))
               /\ UNCHANGED _notifylist
  /\ sync_ops' = sync_ops + 1
  /\ UNCHANGED <<notprim, sync_at, sync_loc>>

NextRLock ==
  \/ RLock_acquire
  \/ RLock_acquire_run
  \/ RLock_release
  \/ Sync_pass
  \/ Sync_round

SpecRLock == InitChan /\ [][NextRLock]_vars

(* ---------------------------------------------------------------------- *)
(* Condition: wait and notify, with the acquire and release above.          *)
(* ---------------------------------------------------------------------- *)

WaitTimeouts == {None, 0, MaxTime}

(* yield cv.wait(timeout): the generator is yielded to _schedule *)
Cond_wait ==
  /\ sync_ops < lim.ops
  /\ \E c \in Coros, tmo \in WaitTimeouts :
       /\ Turn(c) /\ sync_at[c] = "idle"
       /\ snapshot' = snapshot \ {c}
       /\ sync_at' = Set(sync_at, c, "cv_start")
       /\ sync_loc' = Set(sync_loc, c, [NoLocals EXCEPT !.timeout = tmo])
       /\ sync_res' = Set(sync_res, c, "none")
       /\ Commit(YieldEnd(SetRunning(Kernel, c), c, None))
  /\ sync_ops' = sync_ops + 1
  /\ UNCHANGED <<notprim, condvars>>

(* the loop of wait from its top, with timeout left, for the running c:     *)
(* it returns, or it joins the notify list and awaits                       *)
WaitLoop(K, c, loc, notifylist) ==
  IF loc.timeout # None /\ loc.timeout <= 0
  THEN /\ sync_res' = Set(sync_res, c, "returned")
       /\ sync_at' = Set(sync_at, c, "idle")
       /\ sync_loc' = Set(sync_loc, c, loc)
       /\ _notifylist' = notifylist
       /\ Commit(StopEnd(K, c, None))
  ELSE /\ Len(notifylist) < MaxNotify
       /\ sync_at' = Set(sync_at, c, "cv_wait")
       /\ sync_loc' = Set(sync_loc, c, [loc EXCEPT !.start = now])
       /\ _notifylist' = Append(notifylist, c)
       /\ Commit(YieldEnd(_suspend(K, c, loc.timeout, None, _AwaitIO_).K, c, None))
       /\ UNCHANGED sync_res

(* wait from its start to its first yield or its end *)
Cond_wait_start ==
  \E c \in Coros :
    /\ Turn(c) /\ sync_at[c] = "cv_start"
    /\ snapshot' = snapshot \ {c}
    /\ IF rl_owner # c
       THEN /\ sync_res' = Set(sync_res, c, ReleaseError(rl_owner))
            /\ sync_at' = Set(sync_at, c, "idle")
            /\ Commit(StopEnd(SetRunning(Kernel, c), c, None))
            /\ UNCHANGED <<condvars, sync_loc>>
       ELSE /\ rl_owner' = None
            /\ _depth' = 0
            /\ rl_waitlist' = IF rl_waitlist # <<>> THEN Tail(rl_waitlist) ELSE <<>>
            /\ LET K1 == SetRunning(Kernel, c)
                   K2 == IF rl_waitlist # <<>>
                         THEN _resume(K1, Head(rl_waitlist), None, _AwaitIO_)
                         ELSE K1
               IN WaitLoop(K2, c, [sync_loc[c] EXCEPT !.depth = _depth], _notifylist)
            /\ UNCHANGED held
    /\ UNCHANGED <<notprim, sync_ops>>

(* wait from its yield to its next yield or its end *)
Cond_wait_run ==
  \E c \in Coros :
    /\ Turn(c) /\ sync_at[c] = "cv_wait"
    /\ snapshot' = snapshot \ {c}
    /\ IF rl_owner = None
       THEN /\ rl_owner' = c
            /\ _depth' = sync_loc[c].depth
            /\ sync_res' = Set(sync_res, c, IF _depth = 0 THEN "returned" ELSE "AssertionError")
            /\ sync_at' = Set(sync_at, c, "idle")
            /\ Commit(StopEnd(SetRunning(Kernel, c), c, _value[c]))
            /\ UNCHANGED <<rl_waitlist, _notifylist, held, sync_loc>>
       ELSE /\ LET t == sync_loc[c].timeout
                   loc == [sync_loc[c] EXCEPT
                             !.timeout = IF t = None THEN None ELSE t - (now - sync_loc[c].start)]
               IN WaitLoop(SetRunning(Kernel, c), c, loc, _notifylist)
            /\ UNCHANGED <<rl_owner, _depth, rl_waitlist, held>>
    /\ UNCHANGED <<notprim, sync_ops>>

(* for w in the first n of q: w._proceed_() *)
RECURSIVE ProceedFirst(_, _, _)
ProceedFirst(K, q, n) ==
  IF q = <<>> \/ n = 0 THEN K
  ELSE ProceedFirst(_resume(K, Head(q), None, _AwaitIO_), Tail(q), n - 1)

(* cv.notify(n), cv.notify_all() by the coroutine that runs *)
Cond_notify ==
  /\ sync_ops < lim.ops
  /\ \E c \in Coros, n \in {1, Len(_notifylist)} :
       /\ Turn(c) /\ sync_at[c] = "idle"
       /\ snapshot' = snapshot \ {c}
       /\ _notifylist' = SubSeq(_notifylist, n + 1, Len(_notifylist))
       /\ Commit(YieldEnd(ProceedFirst(SetRunning(Kernel, c), _notifylist, n), c, None))
  /\ sync_ops' = sync_ops + 1
  /\ UNCHANGED <<notprim, sync_at, sync_loc, sync_res, rl_owner, _depth, rl_waitlist, held>>

NextCond ==
  \/ RLock_acquire
  \/ RLock_acquire_run
  \/ RLock_release
  \/ Cond_wait
  \/ Cond_wait_start
  \/ Cond_wait_run
  \/ Cond_notify
  \/ Sync_pass
  \/ Sync_round
  \/ Tick

(* the coroutines added, with fewer calls to make *)
InitShort ==
  /\ InitReady /\ lim = [Solo EXCEPT !.ops = MaxCondOps]
  /\ InitChannel /\ InitSocket /\ InitLock /\ InitPrims

SpecCond == InitShort /\ [][NextCond]_vars

(* ---------------------------------------------------------------------- *)
(* Event: set, clear and wait(timeout) on one event.                        *)
(* ---------------------------------------------------------------------- *)

notevent == <<notsync, condvars, semvars, achanvars, _recipients, chan_at, chan_msg, chan_ops, delivered,
              got>>

(* set() waking the waiters with no value *)
SetValue_none == None

(* coro._proceed_(True) in set() *)
SetValue == PyTrue

(* event.set() by the coroutine that runs *)
Event_set ==
  /\ sync_ops < lim.ops
  /\ \E c \in Coros :
       /\ Turn(c) /\ sync_at[c] = "idle"
       /\ snapshot' = snapshot \ {c}
       /\ _flag' = TRUE
       /\ _waitlist' = <<>>
       /\ Commit(YieldEnd(ProceedAll(SetRunning(Kernel, c), _waitlist, SetValue), c, None))
  /\ sync_ops' = sync_ops + 1
  /\ UNCHANGED <<notevent, sync_at, sync_loc, sync_res>>

(* event.clear() by the coroutine that runs *)
Event_clear ==
  /\ sync_ops < lim.ops
  /\ \E c \in Coros :
       /\ Turn(c) /\ sync_at[c] = "idle"
       /\ snapshot' = snapshot \ {c}
       /\ _flag' = FALSE
       /\ Commit(YieldEnd(SetRunning(Kernel, c), c, None))
  /\ sync_ops' = sync_ops + 1
  /\ UNCHANGED <<notevent, sync_at, sync_loc, sync_res, _waitlist>>

(* yield event.wait(timeout): the generator is yielded to _schedule *)
Event_wait ==
  /\ sync_ops < lim.ops
  /\ \E c \in Coros, tmo \in WaitTimeouts :
       /\ Turn(c) /\ sync_at[c] = "idle"
       /\ snapshot' = snapshot \ {c}
       /\ sync_at' = Set(sync_at, c, "ev_start")
       /\ sync_loc' = Set(sync_loc, c, [NoLocals EXCEPT !.timeout = tmo, !.asked = tmo,
                                                         !.called = now])
       /\ sync_res' = Set(sync_res, c, "none")
       /\ Commit(YieldEnd(SetRunning(Kernel, c), c, None))
  /\ sync_ops' = sync_ops + 1
  /\ UNCHANGED <<notevent, _flag, _waitlist>>

(* wait from its start, or from its yield, to its next yield or its end,    *)
(* where the generator that yielded it is the next to run                   *)
Event_wait_run ==
  \E c \in Coros :
    /\ Turn(c) /\ sync_at[c] \in {"ev_start", "ev_wait"}
    /\ snapshot' = snapshot \ {c}
    /\ LET t == sync_loc[c].timeout
           left == IF sync_at[c] = "ev_wait" /\ t # None
                   THEN t - (now - sync_loc[c].start) ELSE t
           K1 == SetRunning(Kernel, c)
       IN IF _flag
          THEN /\ sync_res' = Set(sync_res, c, "True")
               /\ sync_at' = Set(sync_at, c, sync_loc[c].caller)
               /\ sync_loc' = Set(sync_loc, c, [sync_loc[c] EXCEPT !.timeout = left])
               /\ Commit(StopEnd(K1, c, PyTrue))
               /\ UNCHANGED _waitlist
          ELSE IF left # None /\ left <= 0
          THEN /\ sync_res' = Set(sync_res, c, "False")
               /\ sync_at' = Set(sync_at, c, sync_loc[c].caller)
               /\ sync_loc' = Set(sync_loc, c, [sync_loc[c] EXCEPT !.timeout = left])
               /\ Commit(StopEnd(K1, c, 0))
               /\ UNCHANGED _waitlist
          ELSE /\ Len(_waitlist) < MaxNotify
               /\ _waitlist' = Append(_waitlist, c)
               /\ sync_at' = Set(sync_at, c, "ev_wait")
               /\ sync_loc' = Set(sync_loc, c, [sync_loc[c] EXCEPT !.timeout = left,
                                                                    !.start = now])
               /\ Commit(YieldEnd(_suspend(K1, c, left, None, _AwaitIO_).K, c, None))
               /\ UNCHANGED sync_res
    /\ UNCHANGED <<notevent, sync_ops, _flag>>

NextEvent ==
  \/ Event_set
  \/ Event_clear
  \/ Event_wait
  \/ Event_wait_run
  \/ Sync_pass
  \/ Sync_round
  \/ Tick

SpecEvent == InitShort /\ [][NextEvent]_vars

(* ---------------------------------------------------------------------- *)
(* Semaphore                                                                *)
(* ---------------------------------------------------------------------- *)

notsem == <<notsync, chanvars, condvars, achanvars>>

(* 'self._counter == 0' taken as false whatever the counter *)
SemBlocked_never(counter) == FALSE

(* 'self._counter == 0' in acquire *)
SemBlocked(counter) == counter = 0

(* yield sem.acquire(blocking): the generator is yielded to _schedule *)
Sem_acquire ==
  /\ sync_ops < lim.ops
  /\ \E c \in Coros, blocking \in BOOLEAN :
       /\ Turn(c) /\ sync_at[c] = "idle"
       /\ snapshot' = snapshot \ {c}
       /\ sync_at' = Set(sync_at, c, "sem_start")
       /\ sync_loc' = Set(sync_loc, c, [NoLocals EXCEPT !.blocking = blocking])
       /\ sync_res' = Set(sync_res, c, "none")
       /\ Commit(YieldEnd(SetRunning(Kernel, c), c, None))
  /\ sync_ops' = sync_ops + 1
  /\ UNCHANGED <<notsem, semvars>>

(* acquire from its start, or from its yield, to its next yield or its end *)
Sem_acquire_run ==
  \E c \in Coros :
    /\ Turn(c) /\ sync_at[c] \in {"sem_start", "sem_wait"}
    /\ snapshot' = snapshot \ {c}
    /\ IF SemBlocked(_counter)
       THEN IF sync_loc[c].blocking
            THEN /\ sem_waitlist' = Append(sem_waitlist, c)
                 /\ sync_at' = Set(sync_at, c, "sem_wait")
                 /\ LET r == _suspend(SetRunning(Kernel, c), c, None, None, _AwaitIO_)
                    IN Commit(YieldEnd(r.K, c, None))
                 /\ UNCHANGED <<sync_res, _counter, sem_acquired>>
            ELSE /\ sync_res' = Set(sync_res, c, "False")
                 /\ sync_at' = Set(sync_at, c, "idle")
                 /\ Commit(StopEnd(SetRunning(Kernel, c), c, 0))
                 /\ UNCHANGED <<sem_waitlist, _counter, sem_acquired>>
       ELSE /\ _counter' = _counter - 1
            /\ sem_acquired' = sem_acquired + 1
            /\ sync_res' = Set(sync_res, c, "True")
            /\ sync_at' = Set(sync_at, c, "idle")
            /\ Commit(StopEnd(SetRunning(Kernel, c), c, PyTrue))
            /\ UNCHANGED sem_waitlist
    /\ UNCHANGED <<notsem, sync_loc, sync_ops, sem_released>>

(* sem.release() by the coroutine that runs *)
Sem_release ==
  /\ sync_ops < lim.ops
  /\ \E c \in Coros :
       /\ Turn(c) /\ sync_at[c] = "idle"
       /\ snapshot' = snapshot \ {c}
       /\ _counter' = _counter + 1
       /\ sem_released' = sem_released + 1
       /\ sem_waitlist' = IF sem_waitlist # <<>> THEN Tail(sem_waitlist) ELSE <<>>
       /\ LET K1 == SetRunning(Kernel, c)
              K2 == IF sem_waitlist # <<>>
                    THEN _resume(K1, Head(sem_waitlist), None, _AwaitIO_)
                    ELSE K1
          IN Commit(YieldEnd(K2, c, None))
  /\ sync_ops' = sync_ops + 1
  /\ UNCHANGED <<notsem, sync_at, sync_loc, sync_res, sem_acquired>>

NextSem ==
  \/ Sem_acquire
  \/ Sem_acquire_run
  \/ Sem_release
  \/ Sync_pass
  \/ Sync_round

SpecSem == InitChan /\ [][NextSem]_vars

(* ---------------------------------------------------------------------- *)
(* AsyncChannel: subscribe, unsubscribe and deliver.                        *)
(* ---------------------------------------------------------------------- *)

notachan == <<notsync, condvars, semvars, _recipients, chan_at, chan_msg, chan_ops, delivered,
              got>>

(* 'len(self._subscribers) == self._min_receivers' taken as false *)
GateOpens_never(n, m) == FALSE

(* 'if len(self._subscribers) == self._min_receivers' in subscribe *)
GateOpens(n, m) == n = m

(* channel.subscribe(coro) by the coroutine itself *)
AChan_subscribe ==
  /\ sync_ops < lim.ops
  /\ \E c \in Coros, sub \in Coros :
       /\ sub = c
       /\ Turn(c) /\ sync_at[c] = "idle"
       /\ snapshot' = snapshot \ {c}
       /\ aop' = <<"subscribe", sub, sub \in _subscribers>>
       /\ LET subs == _subscribers \cup {sub}
              set == GateOpens(Cardinality(subs), _min_receivers)
              K1 == SetRunning(Kernel, c)
              K2 == IF set THEN ProceedAll(K1, _waitlist, SetValue) ELSE K1
          IN /\ _subscribers' = subs
             /\ _flag' = (set \/ _flag)
             /\ _waitlist' = IF set THEN <<>> ELSE _waitlist
             /\ Commit(YieldEnd(K2, c, None))
  /\ sync_ops' = sync_ops + 1
  /\ UNCHANGED <<notachan, sync_at, sync_loc, sync_res, _min_receivers, adelivered>>

(* channel.unsubscribe(coro) by the coroutine itself *)
AChan_unsubscribe ==
  /\ sync_ops < lim.ops
  /\ \E c \in Coros, sub \in Coros :
       /\ sub = c
       /\ Turn(c) /\ sync_at[c] = "idle"
       /\ snapshot' = snapshot \ {c}
       /\ aop' = <<"unsubscribe", sub, sub \in _subscribers>>
       /\ _subscribers' = _subscribers \ {sub}
       /\ _flag' = IF Cardinality(_subscribers \ {sub}) < _min_receivers THEN FALSE ELSE _flag
       /\ Commit(YieldEnd(SetRunning(Kernel, c), c, None))
  /\ sync_ops' = sync_ops + 1
  /\ UNCHANGED <<notachan, sync_at, sync_loc, sync_res, _waitlist, _min_receivers, adelivered>>

(* for subscriber in S: subscriber.send(msg) *)
RECURSIVE SendAll(_, _, _)
SendAll(K, S, msg) ==
  IF S = {} THEN K
  ELSE LET sub == CHOOSE x \in S : TRUE
       IN SendAll(_resume(K, sub, msg, _AwaitMsg_), S \ {sub}, msg)

(* deliver from 'msg = ChannelMessage(...)' to 'raise StopIteration(True)' *)
DeliverAll(c) ==
  /\ adelivered' = adelivered \cup {<<_min_receivers, Cardinality(_subscribers)>>}
  /\ sync_res' = Set(sync_res, c, "True")
  /\ sync_at' = Set(sync_at, c, "idle")
  /\ Commit(StopEnd(SendAll(SetRunning(Kernel, c), _subscribers, 1), c, PyTrue))

DeliverTimeouts == {None, 0}

(* yield channel.deliver(message, timeout, alarm_value): the generator is   *)
(* yielded to _schedule                                                     *)
AChan_deliver ==
  /\ sync_ops < lim.ops
  /\ \E c \in Coros, tmo \in DeliverTimeouts :
       /\ Turn(c) /\ sync_at[c] = "idle"
       /\ snapshot' = snapshot \ {c}
       /\ sync_at' = Set(sync_at, c, "dl_start")
       /\ sync_loc' = Set(sync_loc, c, [NoLocals EXCEPT !.timeout = tmo, !.asked = tmo,
                                                         !.called = now,
                                                         !.caller = "dl_resume"])
       /\ sync_res' = Set(sync_res, c, "none")
       /\ Commit(YieldEnd(SetRunning(Kernel, c), c, None))
  /\ sync_ops' = sync_ops + 1
  /\ UNCHANGED <<notachan, _flag, _waitlist, achanvars>>

(* deliver from its start: it sends, or it yields self._event.wait(timeout) *)
AChan_deliver_start ==
  \E c \in Coros :
    /\ Turn(c) /\ sync_at[c] = "dl_start"
    /\ snapshot' = snapshot \ {c}
    /\ IF Cardinality(_subscribers) < _min_receivers
       THEN /\ sync_at' = Set(sync_at, c, "ev_start")
            /\ Commit(YieldEnd(SetRunning(Kernel, c), c, None))
            /\ UNCHANGED <<sync_res, adelivered>>
       ELSE DeliverAll(c)
    /\ UNCHANGED <<notachan, sync_loc, sync_ops, _flag, _waitlist, _subscribers,
                   _min_receivers, aop>>

(* deliver after 'yield self._event.wait(timeout)' *)
AChan_deliver_resume ==
  \E c \in Coros :
    /\ Turn(c) /\ sync_at[c] = "dl_resume"
    /\ snapshot' = snapshot \ {c}
    /\ IF ~Truthy(_value[c])
       THEN /\ sync_res' = Set(sync_res, c, "alarm")
            /\ sync_at' = Set(sync_at, c, "idle")
            /\ Commit(StopEnd(SetRunning(Kernel, c), c, Alarm))
            /\ UNCHANGED adelivered
       ELSE DeliverAll(c)
    /\ UNCHANGED <<notachan, sync_loc, sync_ops, _flag, _waitlist, _subscribers,
                   _min_receivers, aop>>

NextAChan ==
  \/ AChan_subscribe
  \/ AChan_unsubscribe
  \/ AChan_deliver
  \/ AChan_deliver_start
  \/ Event_wait_run
  \/ AChan_deliver_resume
  \/ Sync_pass
  \/ Sync_round

(* a channel made with any min_receivers, the coroutines added *)
InitAChan ==
  /\ InitReady /\ lim = [Solo EXCEPT !.ops = MaxCondOps]
  /\ \E m \in 0..MinReceivers :
       /\ InitGate(m)
       /\ InitAsyncChannel(m)
  /\ _recipients = <<>>
  /\ chan_at = [c \in Coros |-> "idle"]
  /\ chan_msg = [c \in Coros |-> None]
  /\ chan_ops = 0 /\ delivered = {}
  /\ got = [c \in Coros |-> None]
  /\ InitSocket /\ InitLock
  /\ sync_at = [c \in Coros |-> "idle"]
  /\ sync_loc = [c \in Coros |-> NoLocals]
  /\ sync_res = [c \in Coros |-> "none"]
  /\ sync_ops = 0
  /\ InitCond /\ InitSem

SpecAChan == InitAChan /\ [][NextAChan]_vars

(* ---------------------------------------------------------------------- *)
(* Properties                                                               *)
(* ---------------------------------------------------------------------- *)

C3_PendingExceptionIsReady ==
  \A c \in _coros :
    (_exceptions[c] # <<>> /\ _state[c] # _Running) =>
      _state[c] = _Scheduled /\ c \in _scheduled

(* The messages are numbered in the order their sends complete. *)
Increasing(q) == \A i, j \in DOMAIN q : i < j => q[i] < q[j]

(* C4: the receive calls of a coroutine return its messages in the order    *)
(* the sends completed, each at most once; and a send to a coroutine that   *)
(* is not awaiting a message appends the message to the tail of its mailbox *)
C4_Fifo ==
  /\ [](\A c \in Coros : Increasing(recvLog[c]) /\ Range(recvLog[c]) \subseteq Range(sentLog[c]))
  /\ [][\A c \in Coros :
          (sentLog'[c] # sentLog[c] /\ _state[c] # _AwaitMsg_) =>
             _msgs'[c] = Append(_msgs[c], <<_AwaitMsg_, nsent + 1>>)]_vars

(* both messages were returned, the second one from the mailbox *)
C4_Witness ==
  \E c \in _coros : recvLog[c] = <<1, 2>> /\ sentLog[c] = <<1, 2>>

C7_SwapKeepsMessages ==
  \A c \in Coros : lostAtSwap[c] = {}

(* C6: once a coroutine B that has a live monitor A has ended, A is in the  *)
(* ready set with a MonitorException for B in its exception queue, until    *)
(* its next step receives it.                                               *)
C6_MonitorNotified ==
  \A p \in monitoredExit :
    p[1] \in _coros =>
      /\ p[1] \in _scheduled
      /\ \E i \in DOMAIN _exceptions[p[1]] : _exceptions[p[1]][i][1] = "MonitorException"

(* C8: a deliver that returns True has handed its message to at least      *)
(* MinReceivers coroutines that were blocked in receive on the channel.     *)
C8_DeliverReachesMinReceivers ==
  \A d \in delivered : d[2] >= MinReceivers

(* the bytes of the frames of the payloads q, one after the other: four    *)
(* bytes that read as a big-endian number give the length, the payload      *)
(* follows                                                                  *)
RECURSIVE WellFramed(_, _)
WellFramed(w, q) ==
  IF q = <<>> THEN w = <<>>
  ELSE LET x == Head(q)
       IN /\ Len(w) >= 4 + Len(x)
          /\ w[1] * 16777216 + w[2] * 65536 + w[3] * 256 + w[4] = Len(x)
          /\ SubSeq(w, 5, 4 + Len(x)) = x
          /\ WellFramed(SubSeq(w, 5 + Len(x), Len(w)), Tail(q))

(* C9: the i-th recv_msg returns the payload of the i-th send_msg, however  *)
(* the bytes were split by the writes and the reads; and what the sender    *)
(* has written when its send_msg calls are complete is, for each payload, a *)
(* 4-byte big-endian length followed by the payload.                        *)
C9_FramingRoundTrip ==
  /\ Len(recv_msgs) <= Len(sent_msgs)
  /\ \A i \in DOMAIN recv_msgs : recv_msgs[i] = sent_msgs[i]
  /\ ~_write_task /\ send_at \in {"idle", "sendall"} => WellFramed(wireLog, sent_msgs)

(* both messages came back, a non-empty one through a partial read *)
C9_Witness ==
  /\ Len(recv_msgs) = MaxMsg
  /\ split
  /\ \E i \in DOMAIN recv_msgs : Len(recv_msgs[i]) = MaxLen

(* C10 as stated: of the coroutines whose acquire returned True and that   *)
(* have not released since, there is at most one.                           *)
C10_OneHolderUntilItsRelease == Cardinality(holders) <= 1

(* C10, amended: between an acquire that returns True and the next release  *)
(* of the lock, by whichever coroutine, no other acquire returns True, and  *)
(* the owner is the coroutine that got True; a non-blocking acquire on an   *)
(* owned lock returns False and leaves the wait list and the owner alone.   *)
C10_OneOwnerUntilRelease ==
  /\ [](/\ Cardinality(granted) <= 1
        /\ granted \subseteq {_owner}
        /\ \A i \in DOMAIN lock_waitlist : lock_blocking[lock_waitlist[i]])
  /\ [][\A c \in Coros :
          (/\ lock_at[c] = "acquire" /\ lock_at'[c] # "acquire"
           /\ ~lock_blocking[c] /\ _owner # None)
          => /\ lock_ret'[c] = "False"
             /\ lock_waitlist' = lock_waitlist
             /\ _owner' = _owner]_vars

(* a coroutine that waited holds the lock after a release, and another got  *)
(* False from a non-blocking acquire                                        *)
C10_Witness ==
  \E c, d \in Coros :
    /\ c # d
    /\ waited[c] /\ lock_ret[c] = "True" /\ _owner = c
    /\ lock_ret[d] = "False"

(* C11: an acquire returns True to a coroutine that waited only when it is *)
(* the one that has waited longest, and never to a coroutine that called    *)
(* acquire after a release while coroutines that were waiting then still    *)
(* wait for the lock.                                                       *)
C11_FifoHandoff ==
  [][\A c \in Coros :
       (lock_ret[c] # "True" /\ lock_ret'[c] = "True")
       => /\ c \in Range(waitSeq) => Head(waitSeq) = c
          /\ c \in late => waitSeq = <<>>]_vars

(* C12: the RLock has no owner exactly when its depth is 0; the owner's    *)
(* depth is the number of its acquires that returned True less its          *)
(* releases, and no other coroutine holds any; a waiter is taken off the    *)
(* wait list only by the release that brings the depth from 1 to 0.         *)
C12_OwnedUntilDepthZero ==
  /\ [](/\ (rl_owner = None) <=> (_depth = 0)
        /\ \A c \in Coros : held[c] = IF rl_owner = c THEN _depth ELSE 0)
  /\ [][Len(rl_waitlist') < Len(rl_waitlist) => _depth = 1 /\ _depth' = 0]_vars

(* the owner acquired twice and has released once, and another coroutine    *)
(* still waits                                                              *)
C12_Witness ==
  \E c \in Coros :
    /\ rl_owner = c /\ sync_res[c] = "released" /\ _depth = 1
    /\ rl_waitlist # <<>>

(* C13: a release by a coroutine that is not the owner, the lock owned or   *)
(* not, raises RuntimeError and leaves owner, depth and wait list alone.    *)
C13_NonOwnerReleaseFails ==
  [][\A c \in Coros :
       (sync_at[c] = "idle" /\ sync_at'[c] = "idle" /\ c \in snapshot /\ c \notin snapshot'
        /\ sync_ops' # sync_ops /\ rl_owner # c)
       => /\ sync_res'[c] = "RuntimeError"
          /\ UNCHANGED <<rl_owner, _depth, rl_waitlist>>]_vars

(* C14: when wait returns to its caller, the caller owns the condition's   *)
(* lock with the depth it had when it called wait, and it is not on the     *)
(* notify list.                                                             *)
C14_WaitReturnsOwning ==
  [][\A c \in Coros :
       (sync_at[c] \in {"cv_start", "cv_wait"} /\ sync_res'[c] = "returned")
       => /\ rl_owner' = c
          /\ _depth' = sync_loc'[c].depth
          /\ c \notin Range(_notifylist')]_vars

(* C15: while the event is set its wait list is empty and a wait returns   *)
(* True in the step that starts it; set() makes every coroutine suspended   *)
(* in wait ready with the value True; a wait returns False only when the    *)
(* timeout it asked for has passed since the call.                          *)
C15_EventWait ==
  /\ [](_flag => _waitlist = <<>>)
  /\ [][\A c \in Coros :
          /\ (sync_at[c] = "ev_start" /\ sync_at'[c] # "ev_start" /\ _flag)
             => sync_res'[c] = "True" /\ sync_at'[c] = "idle"
          /\ (~_flag /\ _flag' /\ sync_at[c] = "ev_wait" /\ _state[c] = _AwaitIO_)
             => _state'[c] = _Scheduled /\ c \in _scheduled' /\ _value'[c] = PyTrue
          /\ (sync_at[c] \in {"ev_start", "ev_wait"} /\ sync_res'[c] = "False")
             => /\ sync_loc[c].asked # None
                /\ now - sync_loc[c].called >= sync_loc[c].asked]_vars

(* a timed wait that was suspended has returned False, and another          *)
(* coroutine's wait was ended by set()                                      *)
C15_Witness ==
  \E c, d \in Coros :
    /\ c # d
    /\ sync_res[c] = "False" /\ sync_loc[c].asked = MaxTime
    /\ sync_res[d] = "True" /\ sync_loc[d].start = sync_loc[d].called /\ sync_loc[d].asked = None
    /\ sync_at[c] = "idle" /\ sync_at[d] = "idle"

(* C16: the counter is never negative and is the initial value plus the   *)
(* releases less the acquires that returned True; an acquire returns True   *)
(* only in a step that takes a positive counter down by one; a coroutine    *)
(* suspended in acquire is made ready only by a release.                    *)
C16_SemaphoreCounter ==
  /\ [](/\ _counter >= 0
        /\ _counter = SemValue + sem_released - sem_acquired)
  /\ [][\A c \in Coros :
          /\ (sync_at[c] \in {"sem_start", "sem_wait"} /\ sync_res'[c] = "True")
             => _counter > 0 /\ _counter' = _counter - 1
          /\ (sync_at[c] = "sem_wait" /\ _state[c] = _AwaitIO_ /\ _state'[c] # _AwaitIO_)
             => sem_released' = sem_released + 1]_vars

(* a coroutine that was suspended in acquire got the semaphore after a      *)
(* release, another got False, and the counter is back at 0                 *)
C16_Witness ==
  \E c, d \in Coros :
    /\ c # d
    /\ sync_res[c] = "True" /\ sync_res[d] = "False"
    /\ sem_released >= 1 /\ sem_acquired >= 2 /\ _counter = 0

(* C17: a deliver that returns True has sent the message to at least       *)
(* min_receivers subscribers.                                               *)
C17_DeliverReachesMinReceivers == \A d \in adelivered : d[2] >= d[1]

(* C19: the gate event is set exactly when there are at least min_receivers *)
(* subscribers; after subscribe(s) s is a subscriber and after              *)
(* unsubscribe(s) it is not; subscribing a subscriber and unsubscribing a   *)
(* coroutine that is not one change neither the set nor the event.          *)
C19_SubscriptionGate ==
  /\ [](_flag <=> Cardinality(_subscribers) >= _min_receivers)
  /\ [][\A sub \in Coros :
          /\ (sync_ops' # sync_ops /\ aop'[1] = "subscribe" /\ aop'[2] = sub)
             => /\ sub \in _subscribers'
                /\ sub \in _subscribers => UNCHANGED <<_subscribers, _flag>>
          /\ (sync_ops' # sync_ops /\ aop'[1] = "unsubscribe" /\ aop'[2] = sub)
             => /\ sub \notin _subscribers'
                /\ sub \notin _subscribers => UNCHANGED <<_subscribers, _flag>>]_vars

(* the gate was opened by the last subscriber needed and then left open by *)
(* the unsubscribe of a coroutine that was not subscribed                   *)
C19_Witness ==
  /\ _min_receivers = MinReceivers
  /\ Cardinality(_subscribers) = MinReceivers
  /\ _flag
  /\ aop[1] = "unsubscribe" /\ ~aop[3]

(* C18: a message sent on the SyncChannel wakes only coroutines blocked in *)
(* receive on it, is never put in a mailbox, and the send leaves no         *)
(* recipient behind.                                                        *)
C18_OnlyBlockedReceivers ==
  [][/\ \A c \in Coros :
          (_state[c] \in Waiting /\ _state'[c] = _Scheduled /\ _value'[c] \in Msgs)
          => chan_at[c] = "recv"
     /\ _msgs' = _msgs
     /\ nsent' # nsent /\ chan_msg' = chan_msg => _recipients' = <<>>]_vars

(* C20: a suspend, await or receive with timeout 0 made by the running      *)
(* coroutine returns at once and leaves the coroutine's state, the scheduled *)
(* and suspended sets, its deadline and the timer heap as they were; it      *)
(* returns the alarm value, except that receive on a non-empty mailbox takes *)
(* and returns the oldest message.                                           *)
C20_ZeroTimeoutReturnsAtOnce ==
  [][(/\ pc = "gen" /\ pc' = "yield"
      /\ suspend_call' # <<>> /\ suspend_call'[2] = 0
      /\ cid \in _coros /\ _state[cid] = _Running)
     => /\ UNCHANGED <<_state, _scheduled, _suspended, _timeout, _timeouts>>
        /\ IF suspend_call'[1] = _AwaitMsg_ /\ _msgs[cid] # <<>>
           THEN yv' = Head(_msgs[cid])[2] /\ _msgs' = Set(_msgs, cid, Tail(_msgs[cid]))
           ELSE yv' = suspend_call'[3] /\ _msgs' = _msgs]_vars

C20_Witness ==
  /\ pc = "yield" /\ suspend_call = <<_AwaitMsg_, 0, Alarm>>
  /\ yv = Alarm /\ _state[cid] = _Running /\ _msgs[cid] = <<>>
  /\ cid \in _scheduled /\ _timeouts = <<>>

(* C21: a resume of a coroutine that is not Suspended, and a _proceed_ of   *)
(* one that is not in _AwaitIO_, changes nothing: the coroutine's state,    *)
(* value, deadline, mailbox and exception queue, the scheduled and          *)
(* suspended sets and the timer heap stay as they were.                     *)
C21_MismatchedResumeIgnored ==
  [][(/\ ncalls' # ncalls
      /\ \/ call'[1] = "resume" /\ _state[call'[2]] # _Suspended
         \/ call'[1] = "_proceed_" /\ _state[call'[2]] # _AwaitIO_)
     => UNCHANGED kvars]_vars

C21_Witness ==
  /\ call # <<>> /\ call[1] = "resume"
  /\ _state[call[2]] = _AwaitMsg_ /\ call[2] \in _suspended
  /\ _value[call[2]] # Update

(* the step is a call of Coro.throw, the start of a coroutine's step *)
ThrowStep == ncalls' # ncalls /\ call'[1] = "throw"
TryStep == pc = "try" /\ pc' = "gen"

(* what a step with a non-empty exception queue injects: the head of the    *)
(* queue, one exception, in place of the value                              *)
InjectsHead ==
  TryStep /\ _exceptions[cid] # <<>>
  => /\ inj' = Head(_exceptions[cid])
     /\ _exceptions' = Set(_exceptions, cid, Tail(_exceptions[cid]))

C23_NoCallerFrameResumes ==
  [][\A c \in _coros :
       (at[c] = "closed" /\ _callers[c] # <<>> /\ c \in _coros')
       => ~(/\ Len(_callers'[c]) < Len(_callers[c])
            /\ _generator'[c] = _callers[c][Len(_callers[c])][1]
            /\ at'[c] # "closed"
            /\ _exceptions'[c] = <<>>
            /\ _state'[c] = _Scheduled)]_vars

(* the generators that a hot swap asked to install as the body of c *)
SwapBodies(c) ==
  {e[2] : e \in {x \in Range(_exceptions[c]) : x[1] = "HotSwapException"}}
  \cup (IF cid = c /\ inj[1] = "HotSwapException" THEN {inj[2]} ELSE {})
  \cup ({_new_generator[c]} \ {None})

(* C24: the generator of a hot swap becomes the body of a coroutine only in *)
(* a step that starts with the coroutine's _hot_swappable flag set and its   *)
(* caller stack empty; a HotSwapException that arrives otherwise is ignored  *)
(* and leaves the generator and the caller stack as they were.               *)
C24_SwapOnlyWhenEligible ==
  [][\A c \in Coros :
       /\ (_generator'[c] # _generator[c] /\ _generator'[c] \in SwapBodies(c))
          => _hot_swappable[c] /\ _callers[c] = <<>>
       /\ (c \in ignoredSwap' /\ c \notin ignoredSwap)
          => /\ ~(_hot_swappable[c] /\ _callers[c] = <<>>)
             /\ _generator'[c] = _generator[c] /\ _callers'[c] = _callers[c]]_vars

C24_Witness ==
  /\ cid \in _coros /\ cid \in ignoredSwap /\ _callers[cid] # <<>>
  /\ _hot_swappable[cid] /\ _state[cid] = _Running /\ pc = "for"

(* the step of c ends in the else branch of the try statement: the body     *)
(* yielded, no frame was popped and the coroutine stays in the table         *)
YieldStep(c) ==
  /\ pc \in {"gen", "yield"} /\ pc' = "for" /\ cid = c
  /\ c \in _coros' /\ Len(_callers'[c]) >= Len(_callers[c])
  /\ inj[1] # "HotSwapException"

(* C28: a hot_swap of a coroutine that is not eligible returns 1 and only   *)
(* stashes the generator; the first step that ends with a yield while the    *)
(* flag is set and there is no caller frame takes the stashed generator,     *)
(* queues its HotSwapException and leaves the coroutine scheduled.           *)
C28_StashedSwapApplied ==
  [][/\ (ncalls' # ncalls /\ call'[1] = "hot_swap")
        => LET c == call'[2]
           IN (\/ _callers[c] # <<>>
               \/ _state[c] \notin {_Scheduled, _Suspended}
               \/ ~_hot_swappable[c])
              => /\ call'[3] = 1 /\ _new_generator'[c] # None
                 /\ _new_generator'[c] # _new_generator[c]
                 /\ UNCHANGED <<kvars, _generator>>
     /\ \A c \in Coros :
          (/\ YieldStep(c)
           /\ _new_generator[c] # None /\ _hot_swappable[c] /\ _callers'[c] = <<>>)
          => /\ _new_generator'[c] = None
             /\ _exceptions'[c] # <<>>
             /\ _exceptions'[c][Len(_exceptions'[c])] = HotSwapException(_new_generator[c])
             /\ _state'[c] = _Scheduled /\ c \in _scheduled']_vars

(* C29: when the run loop expires timers, a waiting coroutine is made ready *)
(* only if its recorded deadline is due, and the value it is given is the    *)
(* alarm value of the suspension it is in, never that of a heap entry left   *)
(* by an earlier suspension.                                                 *)
C29_StaleTimerNeverWakes ==
  [][\A c \in _coros :
       (/\ pc = "for" /\ snapshot = {} /\ ncalls' = ncalls
        /\ _state[c] \in Waiting /\ _state'[c] = _Scheduled)
       => /\ _timeout[c] # None /\ _timeout[c] <= now + Slack
          /\ _value'[c] = alarmOf[c]]_vars

(* C30: while the scheduler is in, or about to enter, the blocking poll of  *)
(* the notifier and some coroutine is ready, a byte is waiting on the        *)
(* notifier's command socket, so that the poll returns.                      *)
C30_PollInterrupted ==
  (pc = "poll" /\ _scheduled # {}) => interrupts > 0

C30_Witness ==
  /\ pc = "poll" /\ _polling /\ Cardinality(_scheduled) = 2 /\ interrupts = 1

(***************************************************************************)
(* C25: a thread in join or in terminate(await_non_daemons=True) does not  *)
(* stay blocked once every coroutine that is not a daemon has terminated:  *)
(* when a coroutine has terminated and each coroutine still in the table   *)
(* is a daemon, the event the thread waits on is set.                      *)
(***************************************************************************)
OnlyDaemonsLeft == ncreated > Cardinality(_coros) /\ \A c \in _coros : _daemon[c]

C25_WaitsOnlyForNonDaemons ==
  (waiter \in {"join", "terminate"} /\ OnlyDaemonsLeft) => _complete

C27_PingIdempotent ==
  [][\A l \in Peers :
       (net_op'[1] = "ping" /\ net_op'[3] = l /\ net_op'[4]) =>
         LET entry == <<Key(l), Hash(sigs[l], _secret)>>
         IN /\ {e \in _peers' : e[1] = Key(l)} = {entry}
            /\ {e \in _peers' : e[1] # Key(l)} = {e \in _peers : e[1] # Key(l)}
            /\ (entry \in _peers => _peers' = _peers)]_vars

C27_Witness ==
  /\ net_op[1] = "ping" /\ net_op[4] /\ net_op[5]
  /\ Cardinality(_peers) = 2
  /\ <<Key(net_op[3]), Hash(sigs[net_op[3]], _secret)>> \in _peers

(* a step of c inside a sub-computation ends with an exception that the    *)
(* generator did not handle: _schedule appends it to the queue; c is not   *)
(* being terminated                                                        *)
RaiseStep(c) ==
  /\ pc = "gen" /\ pc' = "for" /\ cid = c
  /\ _callers[c] # <<>>
  /\ Len(_exceptions'[c]) > Len(_exceptions[c])
  /\ GeneratorExit \notin Range(_exceptions[c])

(***************************************************************************)
(* C31: an exception that leaves a sub-computation is the one the caller   *)
(* frame gets at the coroutine's next step: the frame on top of the caller *)
(* stack becomes the body, the coroutine is scheduled, and the exception   *)
(* is the head of its queue.                                               *)
(***************************************************************************)
C31_RaisedInCallerNext ==
  [][\A c \in Coros :
       RaiseStep(c) =>
         /\ c \in _coros'
         /\ _generator'[c] = _callers[c][Len(_callers[c])][1]
         /\ _state'[c] = _Scheduled
         /\ Head(_exceptions'[c]) = _exceptions'[c][Len(_exceptions'[c])]]_vars

(* c ends a step by yielding a new generator *)
YieldsGen(c) == pc = "gen" /\ pc' = "for" /\ cid = c /\ ngen' = ngen + 1

(* the generator of c ends with StopIteration while c has a caller frame *)
CompleteStep(c) ==
  /\ pc \in {"gen", "stop"} /\ pc' = "for" /\ cid = c
  /\ Len(_callers'[c]) < Len(_callers[c])
  /\ _exceptions'[c] = <<>>

(* the body and the value of c become the top frame and sub runs in place *)
Pushed(c) ==
  /\ c \in _coros' /\ _state'[c] = _Scheduled
  /\ \E v \in {retval', _value[c]} :
       _callers'[c] = Append(_callers[c], <<_generator[c], v>>)
  /\ _generator'[c] = retval' /\ IsGen(retval')

(* the top frame, and only it, is taken off and its generator is the body; *)
(* the value is the one of the StopIteration, if it has one                 *)
Popped(c) ==
  /\ c \in _coros' /\ _state'[c] = _Scheduled
  /\ _callers[c] = Append(_callers'[c], <<_generator'[c], _callers[c][Len(_callers[c])][2]>>)
  /\ _value'[c] \in {Ret, yv, _value[c]}

C33_NoRunningBetweenSteps ==
  (pc = "for" /\ _cur_coro = None) => \A c \in _coros : _state[c] # _Running


(* ---------------------------------------------------------------------- *)
(* C34: once AsynCoro.terminate has set the flag, the scheduler thread     *)
(* leaves its loop and runs the code after it: the bodies and frames are   *)
(* closed, the events set, the table, the sets and the timers emptied,     *)
(* and _complete set.                                                      *)
(* (a run of the model ends when its budget of steps is used up)           *)
(* ---------------------------------------------------------------------- *)
C34_TerminationCompletes == _terminate ~> (pc = "done" \/ nsteps = lim.steps)


(* ---------------------------------------------------------------------- *)
(* C35: when the system call of a pending task fails, the coroutine that   *)
(* waits for the operation is made ready with the error, and the task and  *)
(* the waiter slot of that direction are cleared.                          *)
(* ---------------------------------------------------------------------- *)
ErrorStep(d) == nio' = nio + 1 /\ io_event' = <<"error", d>>

C35_ErrorWakesWaiter ==
  [][/\ ErrorStep("r") =>
          /\ ~_read_task' /\ _read_coro' = None
          /\ _state[_read_coro] = _AwaitIO_ =>
               /\ _state'[_read_coro] = _Scheduled
               /\ SockError \in Range(_exceptions'[_read_coro])
     /\ ErrorStep("w") =>
          /\ ~_write_task' /\ _write_coro' = None
          /\ _state[_write_coro] = _AwaitIO_ =>
               /\ _state'[_write_coro] = _Scheduled
               /\ SockError \in Range(_exceptions'[_write_coro])]_vars

(* ---------------------------------------------------------------------- *)
(* C36: the task of an operation whose waiter was thrown the socket's      *)
(* timeout does not resume a coroutine afterwards: its result reaches no   *)
(* coroutine that waits for something else.                                *)
(* ---------------------------------------------------------------------- *)
C36_TimedOutTaskResumesNobody ==
  [][\A d \in {"r", "w"} :
       (nio' = nio + 1 /\ io_event' = <<"ok", d>> /\ d \in timed_out)
         => (_state' = _state /\ _value' = _value)]_vars


(* ---------------------------------------------------------------------- *)
(* C37: a message sent to a coroutine that is not being closed is in its   *)
(* mailbox, or is the value its receive is about to return, or has been    *)
(* returned by one of its receive calls.                                   *)
(* ---------------------------------------------------------------------- *)
Closing(c) ==
  \/ GeneratorExit \in Range(_exceptions[c])
  \/ cid = c /\ inj[1] = "GeneratorExit"
  \/ at[c] = "closed"

(* the send woke the coroutine in receive and the step that hands the      *)
(* message over has not taken place                                        *)
AboutToReceive(c, m) ==
  /\ _value[c] = m /\ at[c] = "recv"
  /\ \/ _state[c] = _Scheduled
     \/ _state[c] = _Running /\ cid = c /\ pc = "try"

C37_NoMessageLost ==
  \A c \in _coros :
    ~Closing(c) =>
      \A m \in Range(sentLog[c]) :
        \/ m \in Range(recvLog[c])
        \/ m \in {x[2] : x \in Range(_msgs[c])}
        \/ AboutToReceive(c, m)


(* ---------------------------------------------------------------------- *)
(* C38: the wait queue of a lock holds only coroutines suspended in its    *)
(* acquire, so that a waiter is suspended on a free lock only while a      *)
(* coroutine woken by the release is on its way to take it.                *)
(* ---------------------------------------------------------------------- *)
SuspendedInAcquire(c) == lock_at[c] = "wait" /\ _state[c] = _AwaitIO_

C38_NoWaiterLeftOnFreeLock ==
  (_owner = None /\ \E d \in Coros : SuspendedInAcquire(d))
    => \E c \in Coros : lock_at[c] = "wait" /\ _state[c] \in {_Scheduled, _Running}


(* ---------------------------------------------------------------------- *)
(* C39: a coroutine in Condition.wait (without timeout) that notify has    *)
(* taken off the notify list does not go back on it: it needs no further   *)
(* notify to return from wait.                                             *)
(* ---------------------------------------------------------------------- *)
Notified(c) ==
  /\ sync_at[c] = "cv_wait" /\ sync_loc[c].timeout = None
  /\ c \notin Range(_notifylist)

C39_NotifiedWaiterNeedsNoNotify ==
  [][\A c \in Coros : Notified(c) => c \notin Range(_notifylist')]_vars


(* ---------------------------------------------------------------------- *)
(* C40: the scheduler's count of daemons is the number of coroutines of    *)
(* the table whose daemon flag is set.                                     *)
(* ---------------------------------------------------------------------- *)
C40_DaemonCounterExact == _daemons = Cardinality({c \in _coros : _daemon[c]})

====
